---- MODULE Spec2Model ----
(***************************************************************************)
(* Media assembly pipeline of langrepeater: segment plan, cache            *)
(* population (FileCut / SingleCloud / BatchCloud), PCM concatenation,     *)
(* WAV finalization and the SRT timeline.                                  *)
(*                                                                         *)
(* Time.  The code keeps seconds as floats.  Here a "seconds" value is an  *)
(* integer number of ticks, TPS ticks per second (one tick = 0.1 ms), so   *)
(* that every value the code computes (millisecond inputs, pause           *)
(* midpoints, the 0.7 s edge step, the 1.1 file multiplier) is exact.      *)
(* Millisecond values (cursor, caption times, durations) are integers as   *)
(* in the code.                                                            *)
(***************************************************************************)
EXTENDS Integers, Sequences, FiniteSets, TLC

VARIABLES
    pc,                 \* position of create_audio / populate_cache
    run,                \* the job is run again over the disk the last run left
    phrases,            \* job.phrases (input)
    cards,              \* List[Group]
    segments,           \* every Segment created, by index
    variants,           \* segment index -> SegmentType -> SegmentVariant
    plan,               \* MediaCache._plan, languages in insertion order
    li,                 \* index of the language populate_cache is at
    phase,              \* "file" | "cloud_check" | "cloud_gen" | "batch" | "end"
    si,                 \* index inside the list the current loop walks
    to_generate,        \* segments_to_generate of _populate_cloud_segments
    audio_content_cache,\* MediaCache._audio_content_cache
    master_header,      \* MediaCache._master_header
    pause_pcm_cache,    \* MediaCache._pause_pcm_cache: duration_ms -> bytes
    stream,             \* the writes made to combined_raw.pcm, in order
    bytes_written,      \* MediaCache._bytes_written_phase1
    current_ts_ms,      \* the cursor of create_audio
    captions,           \* SubtitleTrack.captions
    ci,                 \* index of the card _save_card_audio is at
    final_duration_ms,  \* MediaCache._final_duration_ms
    wav_out,            \* the finalized WAV file: header and data
    srt_out,            \* the captions written to the SRT file
    tts_disk,           \* TTS cache directory: path -> WAV file
    silence_disk,       \* silence cache directory: hash -> pause list
    wav_files,          \* recordings under get_app_wav_dir(): name -> WAV file
    log,                \* history: installs, header events, batch realizations, subgroup passes
    tts_calls,          \* the calls of TTSEngine.synthesize_to_file of this run, in order
    prev,               \* outputs of the previous run, disk contents at the start of this one
    temp_dir,           \* config.temp_directory: whether it exists, the files in it
    workers,            \* processes sharing the TTS cache directory, each in one call
    probe               \* a call of the conversions of processing.py: arguments, results

vars == <<pc, run, phrases, cards, segments, variants, plan, li, phase, si,
          to_generate, audio_content_cache, master_header,
          pause_pcm_cache, stream, bytes_written, current_ts_ms, captions, ci,
          final_duration_ms, wav_out, srt_out, tts_disk, silence_disk,
          wav_files, log, tts_calls, prev, temp_dir, workers, probe>>

\* the state outside the job of this process
aux == <<workers, probe>>

-----------------------------------------------------------------------------
(* Bounds of the model *)

MaxCards == 2
MaxRuns == 3
MaxPauses == 3

-----------------------------------------------------------------------------
(* Program constants *)

TPS == 10 * 1000                    \* ticks per second (model time unit)
PAUSE_BREAK_SEC_INT == 2
STEP_FROM_SILENCE_MIDDLE_SEC == 7000            \* 0.7 s in ticks
MAX_TTS_TEXT_LENGTH == 4800
SILENCE_AT_THE_END_SEC == 5
ORIG_SEGMENT_DELAY_OVERRIDE_SEC == 3
TRANSLATION_SEGMENT_DELAY_OVERRIDE_SEC == 1
DESCRIPTION_SEGMENT_DELAY_OVERRIDE_SEC == 8500  \* 0.85 s in ticks
repeat_number == 3
extra_delay_sec == 0
delay_multiplier_for_file_segment_x10 == 11     \* 1.1
delay_after_orig_phrase_fix == TRUE
delay_after_orig_phrase_override_max == 3
SILENT_SEGMENT_PAUSE == 2000                    \* 0.2 s in ticks
FALLBACK_WINDOW == 100                          \* 0.01 s in ticks
NO_TIME == 0 - TPS                              \* -1.0 s

Secs(n) == n * TPS

FILE_SEGMENT == "FILE_SEGMENT"
GENERATED_CLOUD == "GENERATED_CLOUD"
GENERATED_CLOUD_BATCH == "GENERATED_CLOUD_BATCH"
SegmentTypes == {FILE_SEGMENT, GENERATED_CLOUD, GENERATED_CLOUD_BATCH}

DESCRIPTION == "DESCRIPTION"
ORIGINAL_PHRASE == "ORIGINAL_PHRASE"
TRANSLATION == "TRANSLATION"

DE == "de-DE"
EN == "en-US"
RU == "ru-RU"

None == "None"

-----------------------------------------------------------------------------
(* WAV headers and the byte/time conversions of processing.py *)

WAVHeader(r, b, c) == [sample_rate |-> r, bit_depth |-> b, channels |-> c]
DefaultHeader == WAVHeader(22050, 16, 1)
StereoHeader == WAVHeader(24000, 16, 2)
Headers == {DefaultHeader, StereoHeader}
\* _master_header = None
NoHeader == WAVHeader(0, 0, 0)
\* audio_file_key = None, cached path = None
NoKey == <<>>

Abs(x) == IF x < 0 THEN 0 - x ELSE x
Min(a, b) == IF a <= b THEN a ELSE b
Max(a, b) == IF a >= b THEN a ELSE b

BytesPerFrame(h) == h.channels * (h.bit_depth \div 8)

\* int(round(x)) of Python for x = num / den >= 0: round half to even
RoundHalfEven(num, den) ==
    LET q == num \div den
        r == num % den
    IN  IF 2 * r > den THEN q + 1
        ELSE IF 2 * r < den THEN q
        ELSE IF q % 2 = 0 THEN q ELSE q + 1

AlignDown(n, h) == (n \div BytesPerFrame(h)) * BytesPerFrame(h)

\* int(round(duration_sec * bytes_per_second)), whole seconds and the rest
\* taken apart to stay inside 32 bits
RoundedBytes(ticks, h) ==
    ((ticks \div TPS) * (h.sample_rate * BytesPerFrame(h)))
    + RoundHalfEven((ticks % TPS) * (h.sample_rate * BytesPerFrame(h)), TPS)

\* a byte count that is rounded but not aligned to a frame
bytes_for_duration_unaligned(ticks, h) ==
    IF ticks < 0 THEN 0 ELSE RoundedBytes(ticks, h)

\* bytes_for_duration(duration_sec, header): rounded to the nearest byte,
\* then aligned down to a whole frame
bytes_for_duration(ticks, h) ==
    IF ticks < 0 THEN 0
    ELSE AlignDown(RoundedBytes(ticks, h), h)

\* a duration that takes every byte for a frame
calculate_duration_ms_of_bytes(num_bytes, h) ==
    ((num_bytes \div h.sample_rate) * 1000) + (((num_bytes % h.sample_rate) * 1000) \div h.sample_rate)

\* calculate_duration_ms(num_bytes, header) = int(num_bytes / bpf / rate * 1000),
\* in exact arithmetic
calculate_duration_ms(num_bytes, h) ==
    LET den == BytesPerFrame(h) * h.sample_rate
    IN  ((num_bytes \div den) * 1000) + (((num_bytes % den) * 1000) \div den)

\* create_silence(duration_sec, header): the number of silence bytes
create_silence(ticks, h) ==
    IF ticks <= 0 THEN 0 ELSE bytes_for_duration(ticks, h)

-----------------------------------------------------------------------------
(* Texts.  A text is named by its normalized string (the result of         *)
(* fix_tss_text_segment); what the code reads off a text is looked up.     *)

SilentTexts == {"...", ""}
\* Segment.__post_init__: no letter of the Latin, German or Cyrillic alphabets
IsSilentText(t) == t \in SilentTexts

\* len(escaped_text) of the text after _fix_text_for_ssml
EscapedLen(t) ==
    CASE t = "Hallo." -> 6
      [] t = "Ja."    -> 3
      [] t = "Hello." -> 6
      [] t = "Yes."   -> 4
      [] t = "Intro." -> 6
      [] t = "Da."    -> 3
      [] t = "A text of 2370 characters." -> 2370
      [] t = "A text of 4764 characters." -> 4764
      [] t = "A text of 4790 characters." -> 4790
      [] t = ""       -> 0
      [] OTHER        -> 3

\* what the synthesizer speaks for a text, in ms of audio (environment)
SpeechMs(t) ==
    CASE t = "Hallo." -> 1234
      [] t = "Ja."    -> 777
      [] t = "Hello." -> 1111
      [] t = "Yes."   -> 905
      [] t = "Intro." -> 1503
      [] t = "Da."    -> 650
      [] OTHER        -> 500

-----------------------------------------------------------------------------
(* Phrases (phrasereader/models.py) *)

\* SubtitleInterval.from_line: valid times with 0 <= start <= end, or -1/-1
\* with no audio file
SubtitleInterval(s, e, f) == [start_ts_sec |-> s, end_ts_sec |-> e, audio_file |-> f]
NoInterval == SubtitleInterval(NO_TIME, NO_TIME, None)
is_valid(iv) == iv.start_ts_sec >= 0 /\ iv.end_ts_sec >= 0

Part(pfx, t) == [prefix |-> pfx, text |-> t]

\* Phrase.make_description / Phrase.make_phrase; a line is the list of its
\* parts between '|' (split_line_by_pipe), an empty translation is <<>>
make_description(d) ==
    [is_description |-> TRUE, description |-> d, original |-> <<>>,
     translation |-> <<>>, interval |-> NoInterval]
make_phrase(o, t, iv) ==
    [is_description |-> FALSE, description |-> <<>>, original |-> o,
     translation |-> t, interval |-> iv]

PhraseChoices ==
    { make_description(<<Part("", "Intro.")>>),
      make_phrase(<<Part("", "Hallo.")>>, <<Part("", "Hello.")>>, NoInterval),
      make_phrase(<<Part("", "Hallo.")>>, <<Part("", "Hello."), Part("", "Yes.")>>,
                  SubtitleInterval(Secs(1), Secs(2) + 5000, "rec.wav")),
      make_phrase(<<Part("", "Ja.")>>, <<Part("", "Yes.")>>,
                  SubtitleInterval(Secs(1), Secs(2), None)),
      make_phrase(<<Part("", "Ja.")>>, <<Part("rus:", "Yes.")>>, NoInterval),
      make_phrase(<<Part("", "Hallo.")>>, <<Part("de:", "Ja.")>>, NoInterval),
      make_phrase(<<Part("", "Ja.")>>, <<Part("en:", "")>>, NoInterval),
      make_phrase(<<Part("", "...")>>, <<>>, NoInterval) }

-----------------------------------------------------------------------------
(* Cards (generator.py, models.py, config.py) *)

\* create_config.get_types_callback_example
get_types_callback(sub_group_type, language, iv) ==
    IF sub_group_type = ORIGINAL_PHRASE /\ iv.start_ts_sec >= 0
    THEN {FILE_SEGMENT}
    ELSE IF language = DE THEN {GENERATED_CLOUD} ELSE {GENERATED_CLOUD_BATCH}

\* LanguageRepetitorConfig._set_default_tts_configs
tts_speed(language) == IF language = DE THEN "90%" ELSE "100%"

orig_segment_config ==
    [language |-> DE, delay_override_sec |-> Secs(ORIG_SEGMENT_DELAY_OVERRIDE_SEC),
     type |-> ORIGINAL_PHRASE]
transl_segment_config ==
    [language |-> EN, delay_override_sec |-> Secs(TRANSLATION_SEGMENT_DELAY_OVERRIDE_SEC),
     type |-> TRANSLATION]
description_segment_config ==
    [language |-> EN, delay_override_sec |-> DESCRIPTION_SEGMENT_DELAY_OVERRIDE_SEC,
     type |-> DESCRIPTION]

\* the language of one text part: a prefix tag overrides the subgroup language
\* for descriptions and translations only
PartLanguage(part, cfg) ==
    IF cfg.type \in {DESCRIPTION, TRANSLATION}
    THEN CASE part.prefix = "de:"  -> DE
           [] part.prefix = "en:"  -> EN
           [] part.prefix = "rus:" -> RU
           [] OTHER                -> cfg.language
    ELSE cfg.language

\* AudioGeneratorV1._create_segment: the Segment and its variant table
NewSegment(part, cfg) ==
    [text |-> part.text, language |-> PartLanguage(part, cfg),
     is_silent |-> IsSilentText(part.text)]

NewVariant(seg_type, language, iv) ==
    [subtitle_interval |-> IF seg_type = FILE_SEGMENT THEN iv ELSE NoInterval,
     audio_file_key |-> IF seg_type = FILE_SEGMENT /\ iv.audio_file # None
                        THEN <<iv.audio_file>> ELSE NoKey,
     speed_percent |-> tts_speed(language),
     start_time_sec |-> NO_TIME,
     end_time_sec |-> NO_TIME]

NewVariants(part, cfg, iv) ==
    LET lang == PartLanguage(part, cfg)
        types == get_types_callback(cfg.type, lang, iv)
    IN  [t \in types |-> NewVariant(t, lang, iv)]

\* AudioGeneratorV1._build_segments_from_text: the SubGroup of one line; its
\* segments get the indices base+1 .. base+Len(parts)
SubGroup(type, delay_override, delay_sec, segs, caption) ==
    [subgroup_type |-> type, delay_override |-> delay_override,
     delay_override_sec |-> delay_sec, segments |-> segs,
     subtitle_track_caption_text |-> caption]

\* " ".join(combined_caption_text).strip(): the texts in order, or the empty
\* string when there is nothing but spaces
JoinedCaption(texts) ==
    IF \A i \in 1..Len(texts) : texts[i] = "" THEN <<>> ELSE texts

build_segments_from_text(parts, cfg, delay_override, base) ==
    SubGroup(cfg.type, delay_override, cfg.delay_override_sec,
             [i \in 1..Len(parts) |-> base + i],
             JoinedCaption([i \in 1..Len(parts) |-> parts[i].text]))

\* AudioGeneratorV1._phrase_to_card with has_translation = True
phrase_to_card(phrase, base) ==
    IF phrase.is_description
    THEN <<build_segments_from_text(phrase.description, description_segment_config, TRUE, base)>>
    ELSE <<build_segments_from_text(phrase.original, orig_segment_config, FALSE, base),
           IF phrase.translation = <<>>
           THEN SubGroup(TRANSLATION, TRUE, transl_segment_config.delay_override_sec, <<>>, <<>>)
           ELSE build_segments_from_text(phrase.translation, transl_segment_config, TRUE,
                                         base + Len(phrase.original))>>

PhraseLines(phrase) ==
    IF phrase.is_description
    THEN <<[parts |-> phrase.description, cfg |-> description_segment_config]>>
    ELSE <<[parts |-> phrase.original, cfg |-> orig_segment_config],
           [parts |-> phrase.translation, cfg |-> transl_segment_config]>>

RECURSIVE SegmentsOfLines(_)
SegmentsOfLines(lines) ==
    IF lines = <<>> THEN <<>>
    ELSE [i \in 1..Len(Head(lines).parts) |-> NewSegment(Head(lines).parts[i], Head(lines).cfg)]
         \o SegmentsOfLines(Tail(lines))

RECURSIVE VariantsOfLines(_, _)
VariantsOfLines(lines, iv) ==
    IF lines = <<>> THEN <<>>
    ELSE [i \in 1..Len(Head(lines).parts) |-> NewVariants(Head(lines).parts[i], Head(lines).cfg, iv)]
         \o VariantsOfLines(Tail(lines), iv)

\* create_audio step 1: phrases to cards, with the segments they create
RECURSIVE CardsOf(_, _)
CardsOf(ps, base) ==
    IF ps = <<>> THEN <<>>
    ELSE <<phrase_to_card(Head(ps), base)>>
         \o CardsOf(Tail(ps), base + Len(SegmentsOfLines(PhraseLines(Head(ps)))))

RECURSIVE SegmentsOf(_)
SegmentsOf(ps) ==
    IF ps = <<>> THEN <<>>
    ELSE SegmentsOfLines(PhraseLines(Head(ps))) \o SegmentsOf(Tail(ps))

RECURSIVE VariantsOf(_)
VariantsOf(ps) ==
    IF ps = <<>> THEN <<>>
    ELSE VariantsOfLines(PhraseLines(Head(ps)), Head(ps).interval) \o VariantsOf(Tail(ps))

\* Group.is_description / Group.get_subgroup_list
is_description(card) == Len(card) = 1 /\ card[1].subgroup_type = DESCRIPTION

SelectType(card, type) ==
    SelectSeq(card, LAMBDA sg : sg.subgroup_type = type)

\* a subgroup list that puts the translation first
get_subgroup_list_translation_first(card) ==
    IF is_description(card) THEN SelectType(card, DESCRIPTION)
    ELSE SelectType(card, TRANSLATION) \o SelectType(card, ORIGINAL_PHRASE)

get_subgroup_list(card) ==
    IF is_description(card) THEN SelectType(card, DESCRIPTION)
    ELSE SelectType(card, ORIGINAL_PHRASE) \o SelectType(card, TRANSLATION)

\* Segment.select_type: the first variant present in the preferred order
select_type(vs) ==
    IF FILE_SEGMENT \in DOMAIN vs THEN FILE_SEGMENT
    ELSE IF GENERATED_CLOUD \in DOMAIN vs THEN GENERATED_CLOUD
    ELSE IF GENERATED_CLOUD_BATCH \in DOMAIN vs THEN GENERATED_CLOUD_BATCH
    ELSE None

-----------------------------------------------------------------------------
(* TTS cache keys and paths (tts_cache.py, google/tts.py) *)

\* GoogleTTSClient.get_voice_name with config.standard_voice = True
get_voice_name(language, segment_type) ==
    IF language = DE
    THEN IF segment_type = GENERATED_CLOUD THEN "de-DE-Polyglot-1" ELSE "de-DE-Standard-A"
    ELSE IF language = RU THEN "ru-RU-Standard-A"
    ELSE "en-US-Standard-B"

TTSCacheKey(text, language_code, voice_name, speed_percent) ==
    [text |-> text, language_code |-> language_code,
     voice_name |-> voice_name, speed_percent |-> speed_percent]

\* TTSCache._generate_hash: SHA-256 over the four components (collision free)
generate_hash(key) ==
    <<"sha256", key.text, key.language_code, key.voice_name, key.speed_percent>>

\* str.replace('-', '_').replace(':', '_') on the names that occur
DashToUnderscore(str) ==
    CASE str = "de-DE" -> "de_DE"
      [] str = "en-US" -> "en_US"
      [] str = "ru-RU" -> "ru_RU"
      [] str = "de-DE-Polyglot-1" -> "de_DE_Polyglot_1"
      [] str = "de-DE-Standard-A" -> "de_DE_Standard_A"
      [] str = "en-US-Standard-B" -> "en_US_Standard_B"
      [] str = "ru-RU-Standard-A" -> "ru_RU_Standard_A"
      [] OTHER -> str

\* str.replace('%', 'pct')
PercentToPct(str) ==
    CASE str = "90%" -> "90pct"
      [] str = "100%" -> "100pct"
      [] OTHER -> str

\* TTSCache.get_cache_key_string: "{lang}_{voice}_{speed}_{hash}", kept as the
\* list of its pieces between underscores (no component here holds one)
get_cache_key_string(key) ==
    <<key.language_code, key.voice_name, key.speed_percent, generate_hash(key)>>

\* TTSCache._get_full_cache_path: cache_dir / lang / voice / speed / hash.wav
get_full_cache_path(key) ==
    <<"tts_cache", DashToUnderscore(key.language_code), DashToUnderscore(key.voice_name),
      PercentToPct(key.speed_percent), generate_hash(key)>>

\* TTSCache.save_to_cache: the target path parsed back from key_str.split('_')
\* (one voice piece: "_".join(parts[1:-2]) is parts[1])
save_to_cache_path(key_str) ==
    LET n == Len(key_str)
        speed_dir == PercentToPct(key_str[n - 1])
    IN  <<"tts_cache", DashToUnderscore(key_str[1]), DashToUnderscore(key_str[2]),
          IF speed_dir \in {"90pct", "100pct"} THEN speed_dir ELSE speed_dir \o "pct",
          key_str[n]>>

\* a lookup that never finds the cached file
get_cached_file_path_miss(disk, key) == NoKey

\* TTSCache.get_cached_file_path: the path if a file is there, else None
get_cached_file_path(disk, key) ==
    IF get_full_cache_path(key) \in DOMAIN disk THEN get_full_cache_path(key) ELSE NoKey

-----------------------------------------------------------------------------
(* The plan (MediaCache.add_segment_to_plan) *)

\* languages in the order of their first non-silent segment
RECURSIVE PlanLanguages(_, _)
PlanLanguages(segs, i) ==
    IF i = 0 THEN <<>>
    ELSE LET before == PlanLanguages(segs, i - 1)
         IN  IF segs[i].is_silent \/ (\E j \in 1..Len(before) : before[j] = segs[i].language)
             THEN before
             ELSE Append(before, segs[i].language)

\* _plan[lang][seg_type]: the segment indices in insertion order
PlanList(segs, vs, lang, seg_type) ==
    SelectSeq([i \in 1..Len(segs) |-> i],
              LAMBDA i : /\ ~segs[i].is_silent
                         /\ segs[i].language = lang
                         /\ seg_type \in DOMAIN vs[i])

add_segments_to_plan(segs, vs) ==
    [langs |-> PlanLanguages(segs, Len(segs)),
     lists |-> [lang \in {DE, EN, RU} |->
                  [t \in SegmentTypes |-> PlanList(segs, vs, lang, t)]]]

-----------------------------------------------------------------------------
(* SSML packing (MediaCache._populate_cloud_batch_segments, first part) *)

StrLen(str) ==
    CASE str = "<speak>" -> 7
      [] str = "</speak>" -> 8
      [] str = "<prosody rate=\"\">" -> 17
      [] str = "</prosody>" -> 10
      [] str = "<break time='2s'/>" -> 18
      [] str = "90%" -> 3
      [] str = "100%" -> 4
      [] OTHER -> 0

\* len(ssml_prefix) + len(ssml_suffix)
WrapLen(batch_speed) ==
    StrLen("<speak>") + StrLen("</speak>")
    + (IF batch_speed # "100%"
       THEN StrLen("<prosody rate=\"\">") + StrLen(batch_speed) + StrLen("</prosody>")
       ELSE 0)

\* the SSML document of one batch: its prosody rate (if any) and its parts
FullSsml(batch_speed, texts) ==
    [rate |-> IF batch_speed # "100%" THEN batch_speed ELSE None, parts |-> texts,
     break_sec |-> PAUSE_BREAK_SEC_INT]

SsmlLen(ssml) ==
    LET RECURSIVE Sum(_)
        Sum(ts) == IF ts = <<>> THEN 0
                   ELSE EscapedLen(Head(ts)) + StrLen("<break time='2s'/>") + Sum(Tail(ts))
    IN  WrapLen(IF ssml.rate = None THEN "100%" ELSE ssml.rate) + Sum(ssml.parts)

\* a packing loop that opens a new document for every segment
RECURSIVE PackLoopOneEach(_, _, _, _, _, _)
PackLoopOneEach(segs, batch_speed, rest, cur, len, done) ==
    IF rest = <<>> THEN done
    ELSE PackLoopOneEach(segs, batch_speed, Tail(rest), cur, len,
                         Append(done, [full_ssml |-> FullSsml(batch_speed,
                                                              <<segs[Head(rest)].text>>),
                                       batch_segments |-> <<Head(rest)>>]))

\* the packing loop: rest = segments still to place, cur = current_batch_segments,
\* len = current_ssml_len, done = combined_ssml_batches so far
RECURSIVE PackLoop(_, _, _, _, _, _)
PackLoop(segs, batch_speed, rest, cur, len, done) ==
    LET Close(c) == [full_ssml |-> FullSsml(batch_speed, [i \in 1..Len(c) |-> segs[c[i]].text]),
                     batch_segments |-> c]
    IN  IF rest = <<>>
        THEN IF cur # <<>> THEN Append(done, Close(cur)) ELSE done
        ELSE LET part_len == EscapedLen(segs[Head(rest)].text) + StrLen("<break time='2s'/>")
             IN  IF len + part_len > MAX_TTS_TEXT_LENGTH
                 THEN PackLoop(segs, batch_speed, Tail(rest), <<Head(rest)>>,
                               WrapLen(batch_speed) + part_len,
                               IF cur # <<>> THEN Append(done, Close(cur)) ELSE done)
                 ELSE PackLoop(segs, batch_speed, Tail(rest), Append(cur, Head(rest)),
                               len + part_len, done)

combined_ssml_batches(segs, vs, list) ==
    IF list = <<>> THEN <<>>
    ELSE LET batch_speed == vs[list[1]][GENERATED_CLOUD_BATCH].speed_percent
         IN  PackLoop(segs, batch_speed, list, <<>>, WrapLen(batch_speed), <<>>)

\* hashlib.sha256(full_ssml).hexdigest()[:16] (collision free)
ssml_hash_of(full_ssml) == <<"sha256-16", full_ssml>>

\* a segment text used as the text of a cache key
TextOf(text) == <<"text", text>>

-----------------------------------------------------------------------------
(* Audio files.  A WAV file is its header, the length of its PCM data (whole *)
(* frames, as wave.readframes returns them) and the identity of its sound.  *)

AudioContent(header, pcm_len, pcm) == [header |-> header, pcm_len |-> pcm_len, pcm |-> pcm]

\* the identity of a sound: a recording, a synthesis result, or silence
Sound(kind, request, r) == [kind |-> kind, request |-> request, rendering |-> r]

EmptyMap == [k \in {} |-> 0]

\* PCM bytes of ms milliseconds of sound in a file with this header
PcmLen(ms, h) == ((ms * h.sample_rate) \div 1000) * BytesPerFrame(h)

\* TextFixer.ssml_wrap_text(text, lang_code, speed_percent)
ssml_wrap_text(text, speed_percent) ==
    [rate |-> speed_percent, parts |-> <<text>>, break_sec |-> 0]

TTSRequest(ssml, language_code, voice_name) ==
    [ssml |-> ssml, language_code |-> language_code, voice_name |-> voice_name]

Recording(name) ==
    Sound("file", TTSRequest([rate |-> None, parts |-> <<name>>, break_sec |-> 0], None, None), 0)
Silence ==
    Sound("silence", TTSRequest([rate |-> None, parts |-> <<>>, break_sec |-> 0], None, None), 0)

BreakMs == PAUSE_BREAK_SEC_INT * 1000
LeadMs == PAUSE_BREAK_SEC_INT * 1000

RECURSIVE SpokenMs(_)
SpokenMs(texts) ==
    IF texts = <<>> THEN 0 ELSE SpeechMs(Head(texts)) + SpokenMs(Tail(texts))

PcmPause(start_sec, end_sec) == [start_sec |-> start_sec, end_sec |-> end_sec]

\* the silences of a batch recording that starts its speech at t0 (ms): one
\* break after every part
RECURSIVE BreakPauses(_, _)
BreakPauses(texts, t0) ==
    IF texts = <<>> THEN <<>>
    ELSE LET s == t0 + SpeechMs(Head(texts))
         IN  <<PcmPause(s * (TPS \div 1000), (s + BreakMs) * (TPS \div 1000))>>
             \o BreakPauses(Tail(texts), s + BreakMs)

\* What the synthesizer returns for a request (environment): the rendering
\* r decides which breaks come out as silences a detector finds.
\* r in 0..n: only the first r breaks; r = n+1: all of them and a leading
\* silence before the first part.  A request without breaks has one rendering.
Renderings(ssml) == IF ssml.break_sec = 0 THEN {0} ELSE 0 .. (Len(ssml.parts) + 1)

synthesize_to_file(request, h, r) ==
    LET n == Len(request.ssml.parts)
        ms == SpokenMs(request.ssml.parts) + (n * request.ssml.break_sec * 1000)
              + (IF r = n + 1 THEN LeadMs ELSE 0)
    IN  AudioContent(h, PcmLen(ms, h), Sound("tts", request, r))

\* processing.detect_silence on a batch recording: the silent ranges found
detect_silence(wav) ==
    LET texts == wav.pcm.request.ssml.parts
        n == Len(texts)
        r == wav.pcm.rendering
    IN  IF r = n + 1
        THEN <<PcmPause(0, LeadMs * (TPS \div 1000))>> \o BreakPauses(texts, LeadMs)
        ELSE SubSeq(BreakPauses(texts, 0), 1, r)

\* PcmPause.get_middle
get_middle(pause) == pause.start_sec + ((pause.end_sec - pause.start_sec) \div 2)

-----------------------------------------------------------------------------
(* Batch boundary recovery (MediaCache._populate_cloud_batch_segments, the  *)
(* time point assignment)                                                  *)

Window(start_sec, end_sec) == [start_time_sec |-> start_sec, end_time_sec |-> end_sec]

\* a window that is left as the edge inset gives it
AssignWindowNoFallback(i, pause, current_start_sec) ==
    Window(current_start_sec + (IF i > 1 THEN STEP_FROM_SILENCE_MIDDLE_SEC ELSE 0),
           get_middle(pause) - STEP_FROM_SILENCE_MIDDLE_SEC)

\* a window that starts at the middle of the pause before it
AssignWindowNoStep(i, pause, current_start_sec) ==
    IF current_start_sec >= get_middle(pause) - STEP_FROM_SILENCE_MIDDLE_SEC
    THEN IF pause.start_sec >= pause.end_sec
         THEN Window(pause.start_sec, pause.start_sec + FALLBACK_WINDOW)
         ELSE Window(pause.start_sec, pause.end_sec)
    ELSE Window(current_start_sec, get_middle(pause) - STEP_FROM_SILENCE_MIDDLE_SEC)

\* one iteration of "for i in range(num_segments_to_assign)" (i from 1 here)
AssignWindow(i, pause, current_start_sec) ==
    LET start0 == current_start_sec + (IF i > 1 THEN STEP_FROM_SILENCE_MIDDLE_SEC ELSE 0)
        end0 == get_middle(pause) - STEP_FROM_SILENCE_MIDDLE_SEC
    IN  IF start0 >= end0
        THEN IF pause.start_sec >= pause.end_sec
             THEN Window(pause.start_sec, pause.start_sec + FALLBACK_WINDOW)
             ELSE Window(pause.start_sec, pause.end_sec)
        ELSE Window(start0, end0)

\* the windows of the n segments of a batch, given the pause list
RECURSIVE AssignLoop(_, _, _, _)
AssignLoop(i, n, pauses, current_start_sec) ==
    IF i > n THEN <<>>
    ELSE IF i > Len(pauses)
         THEN <<Window(NO_TIME, NO_TIME)>> \o AssignLoop(i + 1, n, pauses, current_start_sec)
         ELSE <<AssignWindow(i, pauses[i], current_start_sec)>>
              \o AssignLoop(i + 1, n, pauses, get_middle(pauses[i]))

\* an assignment that gives up as soon as a pause is missing
AssignTimepointsAllOrNothing(n, pauses) ==
    IF Len(pauses) < n THEN [i \in 1..n |-> Window(NO_TIME, NO_TIME)]
    ELSE AssignLoop(1, n, pauses, 0)

AssignTimepoints(n, pauses) ==
    IF pauses = <<>> THEN [i \in 1..n |-> Window(NO_TIME, NO_TIME)]
    ELSE AssignLoop(1, n, pauses, 0)

-----------------------------------------------------------------------------
(* Header management *)

\* a header check that lets a differing header pass
check_header_lenient(master, header) ==
    [ok |-> TRUE, master |-> IF master = NoHeader THEN header ELSE master]

\* MediaCache._check_and_set_header: the new master header, or the failure
check_and_set_header(master, header) ==
    IF master = NoHeader THEN [ok |-> TRUE, master |-> header]
    ELSE IF header # master THEN [ok |-> FALSE, master |-> master]
    ELSE [ok |-> TRUE, master |-> master]

\* MediaCache.set_header_if_missing()
set_header_if_missing(master) == IF master = NoHeader THEN DefaultHeader ELSE master

-----------------------------------------------------------------------------
(* The concatenator (MediaCache.save_segment_bytes / save_pause_bytes and   *)
(* AudioGeneratorV1._save_card_audio).  The output of phase 1 is threaded   *)
(* through as a record: the writes made, their byte total, the cursor, the  *)
(* captions, the pause cache, the duration of the current subgroup and     *)
(* whether an exception or exit(1) has ended the job.                      *)

Chunk(pcm, lo, hi) == [pcm |-> pcm, lo |-> lo, hi |-> hi]

\* a write whose duration is counted from the start of the artifact
EmitFromStart(out, chunk, h) ==
    [out EXCEPT !.stream = Append(@, chunk),
                !.bytes = @ + (chunk.hi - chunk.lo),
                !.ts = @ + calculate_duration_ms(chunk.hi, h),
                !.sg_dur = @ + calculate_duration_ms(chunk.hi, h)]

\* MediaCache._write_to_stream plus the cursor update of the caller
Emit(out, chunk, h) ==
    LET n == chunk.hi - chunk.lo
        duration_ms == calculate_duration_ms(n, h)
    IN  [out EXCEPT !.stream = Append(@, chunk),
                    !.bytes = @ + n,
                    !.ts = @ + duration_ms,
                    !.sg_dur = @ + duration_ms]

\* a byte window whose end is not clipped to the artifact
SliceWindowUnclipped(variant, content, h) ==
    [lo |-> AlignDown(Max(0, bytes_for_duration(variant.start_time_sec, h)), h),
     hi |-> AlignDown(bytes_for_duration(variant.end_time_sec, h), h)]

\* the byte window of save_segment_bytes for a variant with valid times
SliceWindow(variant, content, h) ==
    LET start_byte == Max(0, bytes_for_duration(variant.start_time_sec, h))
        end_byte == Min(content.pcm_len, bytes_for_duration(variant.end_time_sec, h))
    IN  [lo |-> AlignDown(start_byte, h), hi |-> AlignDown(end_byte, h)]

ValidTimes(variant) ==
    variant.start_time_sec >= 0 /\ variant.end_time_sec >= variant.start_time_sec

\* the slice is written unless it is empty
EmitSlice(out, content, w, h) ==
    IF w.lo >= w.hi THEN out ELSE Emit(out, Chunk(content.pcm, w.lo, w.hi), h)

save_segment_bytes(out, vs, seg_type, acc, h) ==
    IF out.fail THEN out
    ELSE IF h = NoHeader THEN [out EXCEPT !.fail = TRUE]
    ELSE IF seg_type \notin DOMAIN vs \/ vs[seg_type].audio_file_key = NoKey THEN out
    ELSE IF vs[seg_type].audio_file_key \notin DOMAIN acc THEN [out EXCEPT !.fail = TRUE]
    ELSE LET variant == vs[seg_type]
             content == acc[variant.audio_file_key]
         IN  IF content.header # h THEN [out EXCEPT !.fail = TRUE]
             ELSE IF ValidTimes(variant)
             THEN EmitSlice(out, content, SliceWindow(variant, content, h), h)
             ELSE IF variant.start_time_sec # NO_TIME \/ variant.end_time_sec # NO_TIME
             THEN [out EXCEPT !.fail = TRUE]
             ELSE EmitSlice(out, content, [lo |-> 0, hi |-> content.pcm_len], h)

\* a pause duration that is left as the caller asked for it
PauseAsRequested(duration_sec, segment_type) ==
    IF duration_sec < 0 THEN 0 ELSE duration_sec

\* save_pause_bytes: the duration after the batch adjustment
AdjustedPause(duration_sec, segment_type) ==
    IF segment_type = GENERATED_CLOUD_BATCH
    THEN Max(0, (duration_sec - Secs(PAUSE_BREAK_SEC_INT)) + (2 * STEP_FROM_SILENCE_MIDDLE_SEC))
    ELSE IF duration_sec < 0 THEN 0 ELSE duration_sec

\* MediaCache._get_pause_pcm: the pause cache, keyed by int(duration_sec * 1000)
get_pause_pcm(pcache, duration_ms, duration_sec, h) ==
    IF duration_ms \in DOMAIN pcache THEN pcache
    ELSE (duration_ms :> create_silence(duration_sec, h)) @@ pcache

\* the pause is written; it does not count into the subgroup duration
WritePause(out, pcache, duration_ms, h) ==
    IF pcache[duration_ms] = 0 THEN [out EXCEPT !.pcache = pcache]
    ELSE [Emit([out EXCEPT !.pcache = pcache], Chunk(Silence, 0, pcache[duration_ms]), h)
              EXCEPT !.sg_dur = out.sg_dur]

SavePause(out, adjusted, h) ==
    IF out.fail THEN out
    ELSE IF h = NoHeader THEN [out EXCEPT !.fail = TRUE]
    ELSE IF adjusted <= 0 \/ adjusted \div (TPS \div 1000) <= 0 THEN out
    ELSE WritePause(out, get_pause_pcm(out.pcache, adjusted \div (TPS \div 1000), adjusted, h),
                    adjusted \div (TPS \div 1000), h)

\* MediaCache.save_pause_bytes
save_pause_bytes(out, duration_sec, segment_type, h) ==
    SavePause(out, AdjustedPause(duration_sec, segment_type), h)

\* subgroup_duration_ms += duration_ms for the pause of a silent segment
CountPause(before, after) == [after EXCEPT !.sg_dur = @ + (after.ts - before.ts)]

SaveSegment(out, seg, segment_type, segs, vars_, acc, h) ==
    IF segment_type = None THEN out
    ELSE IF segs[seg].is_silent
    THEN CountPause(out, save_pause_bytes(out, SILENT_SEGMENT_PAUSE, None, h))
    ELSE save_segment_bytes(out, vars_[seg], segment_type, acc, h)

\* the loop over subgroup.segments
RECURSIVE SaveSegments(_, _, _, _, _, _)
SaveSegments(out, rest, segs, vars_, acc, h) ==
    IF rest = <<>> THEN out
    ELSE SaveSegments(SaveSegment(out, Head(rest), select_type(vars_[Head(rest)]),
                                  segs, vars_, acc, h),
                      Tail(rest), segs, vars_, acc, h)

\* the configuration values _save_card_audio reads for the pause
PauseConfig(multiplier_x10, extra, fix, max) ==
    [delay_multiplier_for_file_segment_x10 |-> multiplier_x10, extra_delay_sec |-> extra,
     delay_after_orig_phrase_fix |-> fix, delay_after_orig_phrase_override_max |-> max]

\* a dynamic pause that is never clipped
PauseUncapped(subgroup, subgroup_duration_ms, primary_segment_type, config) ==
    IF subgroup.delay_override THEN subgroup.delay_override_sec
    ELSE Max(0, (IF primary_segment_type = FILE_SEGMENT
                 THEN (subgroup_duration_ms * (TPS \div 1000)
                       * config.delay_multiplier_for_file_segment_x10) \div 10
                 ELSE subgroup_duration_ms * (TPS \div 1000))
                + config.extra_delay_sec)

\* pause_sec of _save_card_audio under a configuration
PauseWith(subgroup, subgroup_duration_ms, primary_segment_type, config) ==
    IF subgroup.delay_override THEN subgroup.delay_override_sec
    ELSE LET base_pause_sec ==
                 IF primary_segment_type = FILE_SEGMENT
                 THEN (subgroup_duration_ms * (TPS \div 1000)
                       * config.delay_multiplier_for_file_segment_x10) \div 10
                 ELSE subgroup_duration_ms * (TPS \div 1000)
             pause_sec == base_pause_sec + config.extra_delay_sec
             capped == IF config.delay_after_orig_phrase_fix
                          /\ subgroup.subgroup_type = ORIGINAL_PHRASE
                       THEN Min(pause_sec, config.delay_after_orig_phrase_override_max)
                       ELSE pause_sec
         IN  Max(0, capped)

\* the pause after a subgroup with content, under create_config's values
PauseAfter(subgroup, subgroup_duration_ms, primary_segment_type) ==
    PauseWith(subgroup, subgroup_duration_ms, primary_segment_type,
              PauseConfig(delay_multiplier_for_file_segment_x10, Secs(extra_delay_sec),
                          delay_after_orig_phrase_fix,
                          Secs(delay_after_orig_phrase_override_max)))

\* the pause after the subgroup, if the subgroup had content
WithPause(out, subgroup, primary_segment_type, h) ==
    IF out.sg_dur > 0
    THEN save_pause_bytes(out, PauseAfter(subgroup, out.sg_dur, primary_segment_type),
                          primary_segment_type, h)
    ELSE out

\* a caption whose start and end are exchanged
WithCaptionSwapped(out, start_subgroup_ts_ms, subgroup) ==
    IF ~out.fail /\ out.sg_dur > 0 /\ subgroup.subtitle_track_caption_text # <<>>
    THEN [out EXCEPT !.captions =
              Append(@, [start_ts_ms |-> out.ts, end_ts_ms |-> start_subgroup_ts_ms,
                         text |-> subgroup.subtitle_track_caption_text,
                         index |-> Len(@) + 1])]
    ELSE out

\* the caption of the subgroup, from its start to the cursor after the pause
WithCaption(out, start_subgroup_ts_ms, subgroup) ==
    IF ~out.fail /\ out.sg_dur > 0 /\ subgroup.subtitle_track_caption_text # <<>>
    THEN [out EXCEPT !.captions =
              Append(@, [start_ts_ms |-> start_subgroup_ts_ms, end_ts_ms |-> out.ts,
                         text |-> subgroup.subtitle_track_caption_text,
                         index |-> Len(@) + 1])]
    ELSE out

\* history: one pass of the loop body over a subgroup that has segments;
\* content is the output after the segment loop, after the output after the
\* pause and the caption
Pass(out, content, after, subgroup, primary_segment_type) ==
    [ev |-> "pass", subgroup |-> subgroup, primary |-> primary_segment_type,
     start_ts_ms |-> out.ts, end_ts_ms |-> after.ts,
     content_bytes |-> content.bytes - out.bytes, content_ms |-> content.sg_dur,
     pause_bytes |-> after.bytes - content.bytes, pause_ms |-> after.ts - content.ts,
     captions |-> SubSeq(after.captions, Len(out.captions) + 1, Len(after.captions)),
     first |-> Len(out.stream) + 1, last |-> Len(after.stream)]

\* history: the final silence of the last card
EndSilence(out, after) ==
    [ev |-> "end_silence", bytes |-> after.bytes - out.bytes, ms |-> after.ts - out.ts,
     first |-> Len(out.stream) + 1, last |-> Len(after.stream)]

Passed(out, content, after, subgroup, primary_segment_type) ==
    [after EXCEPT !.log = Append(@, Pass(out, content, after, subgroup, primary_segment_type))]

\* the pause and the caption that follow the segment loop
AfterSegments(out, content, subgroup, primary_segment_type, h) ==
    Passed(out, content,
           WithCaption(WithPause(content, subgroup, primary_segment_type, h), out.ts, subgroup),
           subgroup, primary_segment_type)

\* one subgroup of one repeat: segments, pause, caption
SaveSubgroup(out, subgroup, segs, vars_, acc, h) ==
    IF out.fail \/ subgroup.segments = <<>> THEN out
    ELSE AfterSegments(out,
                       SaveSegments([out EXCEPT !.sg_dur = 0], subgroup.segments,
                                    segs, vars_, acc, h),
                       subgroup, select_type(vars_[subgroup.segments[1]]), h)

RECURSIVE SaveSubgroups(_, _, _, _, _, _)
SaveSubgroups(out, sgs, segs, vars_, acc, h) ==
    IF sgs = <<>> THEN out
    ELSE SaveSubgroups(SaveSubgroup(out, Head(sgs), segs, vars_, acc, h),
                       Tail(sgs), segs, vars_, acc, h)

RECURSIVE SaveRepeats(_, _, _, _, _, _, _)
SaveRepeats(out, i, sgs, segs, vars_, acc, h) ==
    IF i = 0 THEN out
    ELSE SaveRepeats(SaveSubgroups(out, sgs, segs, vars_, acc, h), i - 1, sgs, segs, vars_, acc, h)

\* the final silence, written after the last card only
FinalSilence(out, after) ==
    IF after.fail THEN after ELSE [after EXCEPT !.log = Append(@, EndSilence(out, after))]

WithFinalSilence(out, h) ==
    FinalSilence(out, save_pause_bytes(out, Secs(SILENCE_AT_THE_END_SEC), None, h))

\* a card loop that writes the final silence after every card
save_card_audio_silence_after_every_card(out, card, is_last_card, segs, vars_, acc, h) ==
    WithFinalSilence(
        SaveRepeats(out, IF is_description(card) THEN 1 ELSE repeat_number,
                    get_subgroup_list(card), segs, vars_, acc, h),
        h)

\* AudioGeneratorV1._save_card_audio
save_card_audio(out, card, is_last_card, segs, vars_, acc, h) ==
    IF is_last_card
    THEN WithFinalSilence(
             SaveRepeats(out, IF is_description(card) THEN 1 ELSE repeat_number,
                         get_subgroup_list(card), segs, vars_, acc, h),
             h)
    ELSE SaveRepeats(out, IF is_description(card) THEN 1 ELSE repeat_number,
                     get_subgroup_list(card), segs, vars_, acc, h)

-----------------------------------------------------------------------------
(* Positions of populate_cache: language li of the plan, the loop (phase)  *)
(* and the index si inside the list that loop walks                        *)

PhaseList(l, ph, tg, pl, segs, vs) ==
    LET lists == pl.lists[pl.langs[l]]
    IN  CASE ph = "file"        -> lists[FILE_SEGMENT]
          [] ph = "cloud_check" -> lists[GENERATED_CLOUD]
          [] ph = "cloud_gen"   -> tg
          [] ph = "batch"       -> combined_ssml_batches(segs, vs, lists[GENERATED_CLOUD_BATCH])

\* the recordings of a language are handled after its synthesized audio
PhaseOrderFileLast == <<"cloud_check", "cloud_gen", "batch", "file">>

\* populate_cache: per language, the loops in the order they are called
PhaseOrder == <<"file", "cloud_check", "cloud_gen", "batch">>

PhaseIndex(ph) == CHOOSE k \in 1..Len(PhaseOrder) : PhaseOrder[k] = ph
LastPhase(ph) == PhaseIndex(ph) = Len(PhaseOrder)
PhaseAfter(ph) == IF LastPhase(ph) THEN PhaseOrder[1] ELSE PhaseOrder[PhaseIndex(ph) + 1]

\* the first position at or after (l, ph) that has something to do
RECURSIVE Seek(_, _, _, _, _, _)
Seek(l, ph, tg, pl, segs, vs) ==
    IF l > Len(pl.langs) THEN [li |-> l, phase |-> "end", si |-> 0, tg |-> <<>>]
    ELSE IF PhaseList(l, ph, tg, pl, segs, vs) # <<>>
    THEN [li |-> l, phase |-> ph, si |-> 1, tg |-> tg]
    ELSE Seek(IF LastPhase(ph) THEN l + 1 ELSE l, PhaseAfter(ph),
              IF ph = "cloud_check" THEN tg ELSE <<>>, pl, segs, vs)

\* the position after iteration si of the current loop
After(tg, vs) ==
    IF si < Len(PhaseList(li, phase, tg, plan, segments, vs))
    THEN [li |-> li, phase |-> phase, si |-> si + 1, tg |-> tg]
    ELSE Seek(IF LastPhase(phase) THEN li + 1 ELSE li, PhaseAfter(phase),
              IF phase = "cloud_check" THEN tg ELSE <<>>, plan, segments, vs)

-----------------------------------------------------------------------------
(* History *)

Event(ev, seg_type, lang, key, header, segs, pauses) ==
    [ev |-> ev, seg_type |-> seg_type, lang |-> lang, key |-> key,
     header |-> header, segs |-> segs, pauses |-> pauses]

\* an artifact entered the artifact table
Installed(seg_type, lang, key, header, was_unset) ==
    Event(IF was_unset THEN "install_first" ELSE "install", seg_type, lang, key, header, <<>>, <<>>)
\* _check_and_set_header raised
Mismatch(seg_type, lang, key, header) ==
    Event("mismatch", seg_type, lang, key, header, <<>>, <<>>)
\* the process ended in create_audio step 3 or step 5
Aborted(why) == Event(why, None, None, NoKey, NoHeader, <<>>, <<>>)
\* a batch got its time points
Realized(lang, key, segs, pauses) ==
    Event("batch", GENERATED_CLOUD_BATCH, lang, key, NoHeader, segs, pauses)
\* detect_silence raised on the artifact of a batch
DetectFailed(lang, key, segs) ==
    Event("detect_failed", GENERATED_CLOUD_BATCH, lang, key, NoHeader, segs, <<>>)
\* the silence cache file of a batch could not be loaded
Unreadable(lang, key, segs) ==
    Event("unreadable_silence_map", GENERATED_CLOUD_BATCH, lang, key, NoHeader, segs, <<>>)

-----------------------------------------------------------------------------
(* Initial state: a job of 1..MaxCards phrases, nothing cached on disk *)

Jobs == UNION {[1..n -> PhraseChoices] : n \in 1..MaxCards}

RecordingMs == (2 * 1000) + 200

NoPlan == [langs |-> <<>>, lists |-> [lang \in {DE, EN, RU} |-> [t \in SegmentTypes |-> <<>>]]]
NoWav == [header |-> NoHeader, data |-> <<>>]

\* LanguageRepetitorConfig.__init__: tempfile.mkdtemp under temp/
NewTempDir == [exists |-> TRUE, files |-> {}]

\* a new process with its job and the silence cache; nothing is planned yet
Created(ps, sil) ==
    /\ phrases = ps
    /\ run = 1
    /\ cards = <<>>
    /\ segments = <<>>
    /\ variants = <<>>
    /\ plan = NoPlan
    /\ li = 0
    /\ phase = "end"
    /\ si = 0
    /\ to_generate = <<>>
    /\ audio_content_cache = EmptyMap
    /\ master_header = NoHeader
    /\ pause_pcm_cache = EmptyMap
    /\ stream = <<>>
    /\ bytes_written = 0
    /\ ci = 0
    /\ wav_out = NoWav
    /\ srt_out = <<>>
    /\ tts_disk = EmptyMap
    /\ silence_disk = sil
    /\ wav_files = (<<"rec.wav">> :> AudioContent(StereoHeader, PcmLen(RecordingMs, StereoHeader),
                                                  Recording("rec.wav")))
    /\ log = <<>>
    /\ tts_calls = <<>>
    /\ prev = [wav |-> NoWav, srt |-> <<>>, warm |-> FALSE,
               start_keys |-> {}, start_maps |-> {}]
    /\ temp_dir = NewTempDir

\* the state in which create_audio is called
Start(ps, sil) ==
    /\ Created(ps, sil)
    /\ pc = "start"
    /\ current_ts_ms = 0
    /\ captions = <<>>
    /\ final_duration_ms = -1

NoProbe == [pc |-> "none", ticks |-> 0, header |-> NoHeader, bytes |-> 0, ms |-> 0]

\* no other process is at work on the cache directory, no conversion is probed
Alone == workers = <<>> /\ probe = NoProbe

Init == \E ps \in Jobs : Start(ps, EmptyMap) /\ Alone

\* variables no step of populate_cache touches
NotPopulate == <<run, phrases, cards, segments, plan, pause_pcm_cache, stream,
                 bytes_written, current_ts_ms, captions, ci, final_duration_ms,
                 wav_out, srt_out, wav_files, prev, aux>>

\* create_audio, steps 1 and 2 up to the call of populate_cache
CreateAudio ==
    /\ pc = "start"
    /\ cards' = CardsOf(phrases, 0)
    /\ segments' = SegmentsOf(phrases)
    /\ variants' = VariantsOf(phrases)
    /\ plan' = add_segments_to_plan(segments', variants')
    /\ LET at == Seek(1, PhaseOrder[1], <<>>, plan', segments', variants')
       IN  li' = at.li /\ phase' = at.phase /\ si' = at.si /\ to_generate' = at.tg
    /\ pc' = "populate"
    /\ UNCHANGED <<run, phrases, audio_content_cache, master_header, pause_pcm_cache,
                   stream, bytes_written, current_ts_ms, captions, ci,
                   final_duration_ms, wav_out, srt_out, tts_disk, silence_disk,
                   wav_files, log, prev, temp_dir, tts_calls, aux>>

-----------------------------------------------------------------------------
(* One iteration of each loop of populate_cache.  An iteration yields the  *)
(* state it leaves: whether it ended the process (exit(1)), the variants,  *)
(* the artifact table, the master header, the two disk caches, the list of *)
(* segments to generate and what it adds to the history.                   *)

Same ==
    [fail |-> FALSE, variants |-> variants, acc |-> audio_content_cache,
     master |-> master_header, tts |-> tts_disk, sil |-> silence_disk,
     tg |-> to_generate, events |-> <<>>, temp |-> {}, calls |-> <<>>]

SetKey(vs, seg, t, key) == [vs EXCEPT ![seg][t].audio_file_key = key]
SetTimes(vs, seg, t, start_sec, end_sec) ==
    [vs EXCEPT ![seg][t].start_time_sec = start_sec, ![seg][t].end_time_sec = end_sec]

\* header check and installation of an artifact under a key
Install(o, seg_type, lang, key, content) ==
    LET c == check_and_set_header(o.master, content.header)
    IN  IF ~c.ok
        THEN [o EXCEPT !.fail = TRUE,
                       !.events = Append(@, Mismatch(seg_type, lang, key, content.header))]
        ELSE [o EXCEPT !.master = c.master,
                       !.acc = (key :> content) @@ @,
                       !.events = Append(@, Installed(seg_type, lang, key, content.header,
                                                      o.master = NoHeader))]

\* MediaCache._populate_file_segments, one segment
populate_file_segment(seg, lang) ==
    LET variant == variants[seg][FILE_SEGMENT]
        file_key == variant.audio_file_key
        timed == [Same EXCEPT !.variants =
                      SetTimes(variants, seg, FILE_SEGMENT,
                               variant.subtitle_interval.start_ts_sec,
                               variant.subtitle_interval.end_ts_sec)]
    IN  IF file_key = NoKey THEN Same
        ELSE IF ~is_valid(variant.subtitle_interval) THEN Same
        ELSE IF file_key \in DOMAIN audio_content_cache THEN timed
        ELSE IF file_key \notin DOMAIN wav_files
        THEN [timed EXCEPT !.fail = TRUE,
                           !.events = <<Event("missing", FILE_SEGMENT, lang, file_key,
                                              NoHeader, <<>>, <<>>)>>]
        ELSE Install(timed, FILE_SEGMENT, lang, file_key, wav_files[file_key])

\* MediaCache._populate_cloud_segments, first loop, one segment
populate_cloud_check(seg, lang) ==
    LET variant == variants[seg][GENERATED_CLOUD]
        tts_key == TTSCacheKey(TextOf(segments[seg].text), lang,
                               get_voice_name(lang, GENERATED_CLOUD), variant.speed_percent)
        key_str == get_cache_key_string(tts_key)
        keyed == [Same EXCEPT !.variants = SetKey(variants, seg, GENERATED_CLOUD, key_str)]
        cached_path == get_cached_file_path(tts_disk, tts_key)
    IN  IF key_str \in DOMAIN audio_content_cache THEN keyed
        ELSE IF cached_path # NoKey
        THEN Install(keyed, GENERATED_CLOUD, lang, key_str, tts_disk[cached_path])
        ELSE [keyed EXCEPT !.tg = Append(@, seg)]

\* the temporary files tts_{file_hash}.wav and .mp3, combined_raw.pcm
TempTtsPath(file_hash) == <<"temp", "tts", file_hash>>
Mp3Of(temp_pcm_path) == Append(temp_pcm_path, "mp3")
Phase1Path == <<"temp", "combined_raw.pcm">>

\* a call of TTSEngine.synthesize_to_file: the loop that makes it, the key the
\* result is kept under, the request
Call(seg_type, key, request) == [seg_type |-> seg_type, key |-> key, request |-> request]

\* MediaCache._populate_cloud_segments, second loop, one segment; h is the
\* header of the WAV file the synthesis and conversion produce
populate_cloud_generate(seg, lang, h) ==
    LET variant == variants[seg][GENERATED_CLOUD]
        tts_key_str == variant.audio_file_key
        request == TTSRequest(ssml_wrap_text(segments[seg].text, variant.speed_percent),
                              lang, get_voice_name(lang, GENERATED_CLOUD))
        content == synthesize_to_file(request, h, 0)
        called == [Same EXCEPT !.calls = <<Call(GENERATED_CLOUD, tts_key_str, request)>>]
        o == Install(called, GENERATED_CLOUD, lang, tts_key_str, content)
        temp_pcm_path == TempTtsPath(tts_key_str[Len(tts_key_str)])
    IN  IF tts_key_str = NoKey THEN Same
        ELSE IF o.fail THEN [o EXCEPT !.temp = {Mp3Of(temp_pcm_path), temp_pcm_path}]
        ELSE [o EXCEPT !.tts = (save_to_cache_path(tts_key_str) :> content) @@ @,
                       !.temp = {temp_pcm_path}]

\* the temporary file batch_{ssml_hash}.wav
TempBatchPath(ssml_hash) == <<"temp", "batch", ssml_hash>>

RECURSIVE SetBatchVariants(_, _, _, _, _)
SetBatchVariants(vs, batch_segments, i, key, windows) ==
    IF i > Len(batch_segments) THEN vs
    ELSE SetBatchVariants(
             SetTimes(SetKey(vs, batch_segments[i], GENERATED_CLOUD_BATCH, key),
                      batch_segments[i], GENERATED_CLOUD_BATCH,
                      windows[i].start_time_sec, windows[i].end_time_sec),
             batch_segments, i + 1, key, windows)

\* MediaCache._get_cached_silence_pauses: the JSON list loads if every entry
\* has both keys
Parses(file) == \A i \in 1..Len(file) : {"start_sec", "end_sec"} \subseteq DOMAIN file[i]

\* MediaCache._populate_cloud_batch_segments, one batch; h and r are the
\* header and the rendering of the synthesis result if there is a cache miss,
\* detects is whether detect_silence returns (it raises otherwise)
populate_cloud_batch(batch, batch_speed, lang, h, r, detects) ==
    LET ssml_hash == ssml_hash_of(batch.full_ssml)
        batch_voice == get_voice_name(lang, GENERATED_CLOUD_BATCH)
        batch_tts_key == TTSCacheKey(ssml_hash, lang, batch_voice, batch_speed)
        batch_tts_key_str == get_cache_key_string(batch_tts_key)
        cached_batch_path == get_cached_file_path(tts_disk, batch_tts_key)
        hit == cached_batch_path # NoKey
        content == IF hit THEN tts_disk[cached_batch_path]
                   ELSE synthesize_to_file(TTSRequest(batch.full_ssml, lang, batch_voice), h, r)
        batch_audio_key == IF hit THEN cached_batch_path ELSE TempBatchPath(ssml_hash)
        saved == IF hit THEN Same
                 ELSE [Same EXCEPT !.tts = (save_to_cache_path(batch_tts_key_str) :> content) @@ @,
                                   !.temp = {TempBatchPath(ssml_hash)},
                                   !.calls = <<Call(GENERATED_CLOUD_BATCH, batch_tts_key_str,
                                                    TTSRequest(batch.full_ssml, lang, batch_voice))>>]
        o == Install(saved, GENERATED_CLOUD_BATCH, lang, batch_audio_key, content)
        cached_pauses == ssml_hash \in DOMAIN silence_disk
        pauses == IF cached_pauses THEN silence_disk[ssml_hash] ELSE detect_silence(content)
        windows == AssignTimepoints(Len(batch.batch_segments), pauses)
    IN  IF o.fail THEN o
        ELSE IF cached_pauses /\ ~Parses(silence_disk[ssml_hash])
        THEN [o EXCEPT !.fail = TRUE,
                       !.events = Append(@, Unreadable(lang, batch_audio_key,
                                                       batch.batch_segments))]
        ELSE IF ~cached_pauses /\ ~detects
        THEN [o EXCEPT !.fail = TRUE,
                       !.events = Append(@, DetectFailed(lang, batch_audio_key,
                                                         batch.batch_segments))]
        ELSE [o EXCEPT !.sil = IF cached_pauses THEN @ ELSE (ssml_hash :> pauses) @@ @,
                       !.variants = SetBatchVariants(@, batch.batch_segments, 1,
                                                     batch_audio_key, windows),
                       !.events = Append(@, Realized(lang, batch_audio_key,
                                                     batch.batch_segments, pauses))]

-----------------------------------------------------------------------------
(* Actions *)

\* the state an iteration of populate_cache leaves
PopulateStep(o) ==
    /\ variants' = o.variants
    /\ audio_content_cache' = o.acc
    /\ master_header' = o.master
    /\ tts_disk' = o.tts
    /\ silence_disk' = o.sil
    /\ log' = log \o o.events
    /\ tts_calls' = tts_calls \o o.calls
    /\ temp_dir' = [temp_dir EXCEPT !.files = @ \cup o.temp]
    /\ IF o.fail
       THEN /\ pc' = "failed"
            /\ to_generate' = o.tg
            /\ UNCHANGED <<li, phase, si>>
       ELSE LET at == After(o.tg, o.variants)
            IN  /\ pc' = pc
                /\ li' = at.li /\ phase' = at.phase /\ si' = at.si
                /\ to_generate' = at.tg
    /\ UNCHANGED NotPopulate

CurrentLang == plan.langs[li]
CurrentList == PhaseList(li, phase, to_generate, plan, segments, variants)

PopulateFileSegment ==
    /\ pc = "populate" /\ phase = "file"
    /\ PopulateStep(populate_file_segment(CurrentList[si], CurrentLang))

PopulateCloudCheck ==
    /\ pc = "populate" /\ phase = "cloud_check"
    /\ PopulateStep(populate_cloud_check(CurrentList[si], CurrentLang))

PopulateCloudGenerate ==
    /\ pc = "populate" /\ phase = "cloud_gen"
    /\ \E h \in Headers :
         PopulateStep(populate_cloud_generate(CurrentList[si], CurrentLang, h))

PopulateCloudBatch ==
    /\ pc = "populate" /\ phase = "batch"
    /\ LET list == plan.lists[CurrentLang][GENERATED_CLOUD_BATCH]
           batch_speed == variants[list[1]][GENERATED_CLOUD_BATCH].speed_percent
       IN  \E h \in Headers, r \in Renderings(CurrentList[si].full_ssml), detects \in BOOLEAN :
             PopulateStep(populate_cloud_batch(CurrentList[si], batch_speed, CurrentLang,
                                               h, r, detects))

\* the end of populate_cache: set_header_if_missing(); create_audio then
\* opens the phase 1 stream (set_output_stream)
PopulateEnd ==
    /\ pc = "populate" /\ phase = "end"
    /\ master_header' = set_header_if_missing(master_header)
    /\ pc' = "assemble"
    /\ ci' = 1
    /\ stream' = <<>>
    /\ bytes_written' = 0
    /\ current_ts_ms' = 0
    /\ captions' = <<>>
    /\ temp_dir' = [temp_dir EXCEPT !.files = @ \cup {Phase1Path}]
    /\ UNCHANGED <<run, phrases, cards, segments, variants, plan, li, phase, si,
                   to_generate, audio_content_cache, pause_pcm_cache,
                   final_duration_ms, wav_out, srt_out, tts_disk, silence_disk,
                   wav_files, log, prev, tts_calls, aux>>

\* one card of the loop of create_audio step 3
SaveCardAudio ==
    /\ pc = "assemble"
    /\ LET out == save_card_audio(
                      [stream |-> stream, bytes |-> bytes_written, ts |-> current_ts_ms,
                       captions |-> captions, pcache |-> pause_pcm_cache,
                       sg_dur |-> 0, fail |-> FALSE, log |-> log],
                      cards[ci], ci = Len(cards), segments, variants,
                      audio_content_cache, master_header)
       IN  /\ stream' = out.stream
           /\ bytes_written' = out.bytes
           /\ current_ts_ms' = out.ts
           /\ captions' = out.captions
           /\ pause_pcm_cache' = out.pcache
           /\ pc' = IF out.fail THEN "failed"
                    ELSE IF ci = Len(cards) THEN "finalize" ELSE "assemble"
           /\ ci' = IF out.fail THEN ci ELSE ci + 1
           /\ log' = IF out.fail THEN Append(out.log, Aborted("stream_writing_failed"))
                      ELSE out.log
    /\ UNCHANGED <<run, phrases, cards, segments, variants, plan, li, phase, si,
                   to_generate, audio_content_cache, master_header,
                   final_duration_ms, wav_out, srt_out, tts_disk, silence_disk,
                   wav_files, prev, temp_dir, tts_calls, aux>>

\* MediaCache.finalize_audio_file
FinalizeAudioFile ==
    /\ pc = "finalize"
    /\ wav_out' = [header |-> master_header, data |-> stream]
    /\ final_duration_ms' = calculate_duration_ms(bytes_written, master_header)
    /\ pc' = "subtitles"
    /\ UNCHANGED <<run, phrases, cards, segments, variants, plan, li, phase, si,
                   to_generate, audio_content_cache, master_header, pause_pcm_cache,
                   stream, bytes_written, current_ts_ms, captions, ci, srt_out,
                   tts_disk, silence_disk, wav_files, log, prev, temp_dir, tts_calls, aux>>

\* a scale factor applied whenever the two durations differ
ScaleAppliesAlways(final_ms, planned_ms) ==
    planned_ms > 0 /\ final_ms > 0 /\ final_ms # planned_ms

\* create_audio step 5: whether a scale factor other than 1.0 is applied:
\* abs(final_ms / planned_ms - 1.0) > 0.01 in floating point, which is true at
\* a difference of exactly one hundredth (abs(1.01 - 1.0) is 0.010000000000000009)
ScaleApplies(final_ms, planned_ms) ==
    /\ planned_ms > 0 /\ final_ms > 0
    /\ 100 * Abs(final_ms - planned_ms) >= planned_ms

\* int(ts * scale_factor) with scale_factor = final_ms / planned_ms
ScaleMs(ts, final_ms, planned_ms) ==
    ts + ((ts * (final_ms - planned_ms)) \div planned_ms)

\* Caption._to_subtitle_timestamp
to_subtitle_timestamp(total_milliseconds) ==
    LET t == IF total_milliseconds < 0 THEN 0 ELSE total_milliseconds
    IN  <<t \div (3600 * 1000), (t % (3600 * 1000)) \div (60 * 1000),
          (t % (60 * 1000)) \div 1000, t % 1000>>

\* SsmlSrtFixer.fix_text_for_srt, text.replace("<", "&lt;").replace(">", "&gt;"),
\* on the texts that occur; no caller in the program
fix_text_for_srt(text) ==
    CASE text = "1 < 2" -> "1 &lt; 2"
      [] text = "a > b" -> "a &gt; b"
      [] OTHER -> text

\* Caption.to_srt_segment: fixed_text = self.text
to_srt_segment(caption, idx) ==
    <<idx, to_subtitle_timestamp(caption.start_ts_ms),
      to_subtitle_timestamp(caption.end_ts_ms), caption.text>>

\* SubtitleGenerator.save_subtitles: the captions as scaled
ScaledCaptions(caps, final_ms, planned_ms) ==
    IF ScaleApplies(final_ms, planned_ms)
    THEN [i \in 1..Len(caps) |->
            [caps[i] EXCEPT !.start_ts_ms = ScaleMs(@, final_ms, planned_ms),
                            !.end_ts_ms = ScaleMs(@, final_ms, planned_ms)]]
    ELSE caps

SaveSubtitles ==
    /\ pc = "subtitles"
    /\ IF captions = <<>>
       THEN /\ pc' = "failed"
            /\ srt_out' = srt_out
            /\ log' = Append(log, Aborted("no_captions"))
       ELSE /\ pc' = "cleanup"
            /\ log' = log
            /\ srt_out' = LET scaled == ScaledCaptions(captions, final_duration_ms, current_ts_ms)
                          IN  [i \in 1..Len(scaled) |-> to_srt_segment(scaled[i], scaled[i].index)]
    /\ UNCHANGED <<run, phrases, cards, segments, variants, plan, li, phase, si,
                   to_generate, audio_content_cache, master_header, pause_pcm_cache,
                   stream, bytes_written, current_ts_ms, captions, ci,
                   final_duration_ms, wav_out, tts_disk, silence_disk, wav_files,
                   prev, temp_dir, tts_calls, aux>>

\* MediaCache.post_save_cleanup: the phase 1 file is deleted, and the batch
\* WAV files of the temporary directory that are keys of the artifact table
PostSaveCleanup ==
    /\ pc = "cleanup"
    /\ stream' = <<>>
    /\ temp_dir' = [temp_dir EXCEPT !.files =
                       {f \in @ : f # Phase1Path /\ ~(f[2] = "batch" /\ f \in DOMAIN audio_content_cache)}]
    /\ pc' = "done"
    /\ UNCHANGED <<run, phrases, cards, segments, variants, plan, li, phase, si,
                   to_generate, audio_content_cache, master_header, pause_pcm_cache,
                   bytes_written, current_ts_ms, captions, ci, final_duration_ms,
                   wav_out, srt_out, tts_disk, silence_disk, wav_files, log, prev, tts_calls, aux>>

\* the same job is started again, in a new process, over the disk as it is
StartRun ==
    /\ pc = "done" /\ run < MaxRuns
    /\ run' = run + 1
    /\ prev' = [wav |-> wav_out, srt |-> srt_out,
                warm |-> /\ DOMAIN tts_disk = prev.start_keys
                         /\ DOMAIN silence_disk = prev.start_maps,
                start_keys |-> DOMAIN tts_disk,
                start_maps |-> DOMAIN silence_disk]
    /\ pc' = "start"
    /\ cards' = <<>> /\ segments' = <<>> /\ variants' = <<>> /\ plan' = NoPlan
    /\ li' = 0 /\ phase' = "end" /\ si' = 0 /\ to_generate' = <<>>
    /\ audio_content_cache' = EmptyMap /\ master_header' = NoHeader
    /\ pause_pcm_cache' = EmptyMap
    /\ stream' = <<>> /\ bytes_written' = 0 /\ current_ts_ms' = 0
    /\ captions' = <<>> /\ ci' = 0 /\ final_duration_ms' = -1
    /\ wav_out' = NoWav /\ srt_out' = <<>> /\ log' = <<>> /\ tts_calls' = <<>>
    /\ temp_dir' = NewTempDir
    /\ UNCHANGED <<phrases, tts_disk, silence_disk, wav_files, aux>>

Next ==
    \/ CreateAudio
    \/ PopulateFileSegment
    \/ PopulateCloudCheck
    \/ PopulateCloudGenerate
    \/ PopulateCloudBatch
    \/ PopulateEnd
    \/ SaveCardAudio
    \/ FinalizeAudioFile
    \/ SaveSubtitles
    \/ PostSaveCleanup
    \/ StartRun

Spec == Init /\ [][Next]_vars

-----------------------------------------------------------------------------
(* populate_cache over a silence cache left by earlier jobs.  The silence  *)
(* cache is a directory of JSON files that _get_cached_silence_pauses      *)
(* loads without validation, so the pause list of a batch is any list.     *)

PauseStarts == {0, 15000, 20000, 40000, 65000}
PauseWidths == {4000, 20000}
\* and a pause of no length at the start of the recording
PauseGrid == {PcmPause(s, s + w) : s \in PauseStarts, w \in PauseWidths} \cup {PcmPause(0, 0)}

\* pause lists in the order of their start
PauseLists ==
    {pl \in UNION {[1..k -> PauseGrid] : k \in 0..MaxPauses} :
        \A i \in 1..(Len(pl) - 1) : pl[i].start_sec < pl[i + 1].start_sec}

BatchesOf(segs, vs, pl) ==
    UNION {{combined_ssml_batches(segs, vs, pl.lists[lang][GENERATED_CLOUD_BATCH])[i] :
               i \in 1..Len(combined_ssml_batches(segs, vs, pl.lists[lang][GENERATED_CLOUD_BATCH]))} :
           lang \in {DE, EN, RU}}

BatchHashes(ps) ==
    {ssml_hash_of(b.full_ssml) :
        b \in BatchesOf(SegmentsOf(ps), VariantsOf(ps),
                        add_segments_to_plan(SegmentsOf(ps), VariantsOf(ps)))}

\* a silence cache file whose entry lacks a key (KeyError on load)
Garbled == <<[start_sec |-> 0]>>

\* the silence cache holds a file for one batch of the job
SilenceCaches(ps) == {(hh :> pl) : hh \in BatchHashes(ps), pl \in PauseLists \cup {Garbled}}

InitWin == \E ps \in Jobs : \E sil \in SilenceCaches(ps) : Start(ps, sil) /\ Alone

NextWin ==
    \/ CreateAudio
    \/ PopulateFileSegment
    \/ PopulateCloudCheck
    \/ PopulateCloudGenerate
    \/ PopulateCloudBatch

SpecWin == InitWin /\ [][NextWin]_vars

-----------------------------------------------------------------------------
(* Processes sharing one TTS cache directory.  Each worker makes one call: *)
(* save_to_cache of a synthesis result, or get_cached_file_path followed   *)
(* by the load of the file returned.  shutil.copy2 opens the target for    *)
(* writing, which creates or truncates it, and then writes it block by     *)
(* block; a file on disk is the sequence of blocks written so far.         *)

MaxBlocks == 2
Procs == {1, 2}
StoreRates == {"100%", "90%", "slow"}

\* the content of the temporary file a worker stores: its own synthesis result
SourceFile(w, n) == [i \in 1..n |-> <<w, i>>]
SourceFiles == {SourceFile(w, n) : w \in Procs, n \in 1..MaxBlocks}
Hole == <<0, 0>>

StoreKey(rate) == TTSCacheKey(TextOf("Hallo."), DE, get_voice_name(DE, GENERATED_CLOUD), rate)

Storing(w, key, n) ==
    [op |-> "store", key |-> key, src |-> SourceFile(w, n), pc |-> "call", pos |-> 0,
     path |-> NoKey, got |-> <<>>]
Looking(key) ==
    [op |-> "lookup", key |-> key, src |-> <<>>, pc |-> "call", pos |-> 0,
     path |-> NoKey, got |-> <<>>]
Calls(w, key) == {Looking(key)} \cup {Storing(w, key, n) : n \in 1..MaxBlocks}

InitStore ==
    /\ Start(<<>>, EmptyMap)
    /\ probe = NoProbe
    /\ \E rate \in StoreRates :
         workers \in {wk \in [Procs -> UNION {Calls(w, StoreKey(rate)) : w \in Procs}] :
                         \A w \in Procs : wk[w] \in Calls(w, StoreKey(rate))}

NotStore == <<pc, run, phrases, cards, segments, variants, plan, li, phase, si,
              to_generate, audio_content_cache, master_header, pause_pcm_cache,
              stream, bytes_written, current_ts_ms, captions, ci, final_duration_ms,
              wav_out, srt_out, silence_disk, wav_files, log, tts_calls, prev, temp_dir>>

\* a write of one block at an offset: past the end of the file it leaves a hole
WriteAt(file, at, block) ==
    [i \in 1..Max(Len(file), at) |->
        IF i = at THEN block ELSE IF i <= Len(file) THEN file[i] ELSE Hole]

\* save_to_cache up to the open of the target by copy2
StoreOpen(w) ==
    /\ workers[w].op = "store" /\ workers[w].pc = "call"
    /\ LET cache_path == save_to_cache_path(get_cache_key_string(workers[w].key))
       IN  /\ tts_disk' = (cache_path :> <<>>) @@ tts_disk
           /\ workers' = [workers EXCEPT ![w].pc = "copy", ![w].path = cache_path]
    /\ UNCHANGED <<probe, NotStore>>

\* copy2: the next block of the source
StoreWrite(w) ==
    /\ workers[w].pc = "copy" /\ workers[w].pos < Len(workers[w].src)
    /\ LET at == workers[w].pos + 1
       IN  /\ tts_disk' = [tts_disk EXCEPT ![workers[w].path] =
                              WriteAt(@, at, workers[w].src[at])]
           /\ workers' = [workers EXCEPT ![w].pos = at]
    /\ UNCHANGED <<probe, NotStore>>

\* copy2 closes the target; save_to_cache returns cache_path
StoreReturn(w) ==
    /\ workers[w].pc = "copy" /\ workers[w].pos = Len(workers[w].src)
    /\ workers' = [workers EXCEPT ![w].pc = "done"]
    /\ UNCHANGED <<tts_disk, probe, NotStore>>

\* get_cached_file_path and the load of the file it returns
Lookup(w) ==
    /\ workers[w].op = "lookup" /\ workers[w].pc = "call"
    /\ LET cached_path == get_cached_file_path(tts_disk, workers[w].key)
       IN  workers' = [workers EXCEPT ![w].pc = "done", ![w].path = cached_path,
                                      ![w].got = IF cached_path = NoKey THEN <<>>
                                                 ELSE tts_disk[cached_path]]
    /\ UNCHANGED <<tts_disk, probe, NotStore>>

\* a worker that has returned makes its next call on the same key
NextCall(w) ==
    /\ workers[w].pc = "done"
    /\ \E call \in Calls(w, workers[w].key) : workers' = [workers EXCEPT ![w] = call]
    /\ UNCHANGED <<tts_disk, probe, NotStore>>

NextStore ==
    \/ \E w \in Procs : StoreOpen(w)
    \/ \E w \in Procs : StoreWrite(w)
    \/ \E w \in Procs : StoreReturn(w)
    \/ \E w \in Procs : Lookup(w)
    \/ \E w \in Procs : NextCall(w)

SpecStore == InitStore /\ [][NextStore]_vars

-----------------------------------------------------------------------------
(* create_audio step 5 over any planned total, final duration and captions: *)
(* the state after finalize_audio_file, drawn from a grid.                  *)

PlannedTotals == {7000, 10000}
\* final durations on both sides of the planned total, up to 2% away
FinalDurations(planned_ms) ==
    {0} \cup {planned_ms + ((d * planned_ms) \div 200) + e : d \in {-4, -2, -1, 0, 1, 2, 4},
                                                            e \in {-1, 0, 1}}
CaptionTexts == {<<"Hallo.">>, <<"1 < 2", "a > b">>}
CaptionCuts == {1, 3333, 5000}

\* two captions that share the cut as their boundary and end at the cursor
CaptionsTo(cut, planned_ms, text) ==
    <<[start_ts_ms |-> 0, end_ts_ms |-> cut, text |-> <<"Intro.">>, index |-> 1],
      [start_ts_ms |-> cut, end_ts_ms |-> planned_ms, text |-> text, index |-> 2]>>

InitSrt ==
    /\ Created(<<>>, EmptyMap) /\ Alone
    /\ pc = "subtitles"
    /\ \E planned_ms \in PlannedTotals :
         /\ current_ts_ms = planned_ms
         /\ final_duration_ms \in FinalDurations(planned_ms)
         /\ \E cut \in CaptionCuts, text \in CaptionTexts :
              captions = CaptionsTo(cut, planned_ms, text)

NextSrt == SaveSubtitles \/ PostSaveCleanup

SpecSrt == InitSrt /\ [][NextSrt]_vars

-----------------------------------------------------------------------------
(* The conversions of processing.py applied in turn to one duration and    *)
(* one header: bytes_for_duration, then calculate_duration_ms.             *)

MaxTicks == 120
\* durations up to MaxTicks above zero and above one second
ProbeTicks == {base + d : base \in {0, Secs(1)}, d \in 0..MaxTicks}
\* the two headers of the jobs and a header of a low sample rate
ProbeHeaders == Headers \cup {WAVHeader(5512, 16, 1)}

InitConv ==
    /\ Start(<<>>, EmptyMap)
    /\ workers = <<>>
    /\ \E ticks \in ProbeTicks, h \in ProbeHeaders :
         probe = [pc |-> "duration", ticks |-> ticks, header |-> h, bytes |-> 0, ms |-> 0]

BytesForDuration ==
    /\ probe.pc = "duration"
    /\ probe' = [probe EXCEPT !.pc = "bytes",
                              !.bytes = bytes_for_duration(probe.ticks, probe.header)]
    /\ UNCHANGED <<tts_disk, workers, NotStore>>

CalculateDurationMs ==
    /\ probe.pc = "bytes"
    /\ probe' = [probe EXCEPT !.pc = "ms",
                              !.ms = calculate_duration_ms(probe.bytes, probe.header)]
    /\ UNCHANGED <<tts_disk, workers, NotStore>>

NextConv == BytesForDuration \/ CalculateDurationMs

SpecConv == InitConv /\ [][NextConv]_vars

-----------------------------------------------------------------------------
(* The pause after one subgroup, for the configurations create_config and  *)
(* its callers can set: _save_card_audio's pause computation followed by   *)
(* save_pause_bytes, on an empty stream.                                   *)

\* subgroup_duration_ms at the end of the segment loop
ContentMs == {0, 1, 500, 2000, 2800, 3000, 5000}
Multipliers == {10, 11, 20}
ExtraDelays == {0 - Secs(5), 0, Secs(1)}
PauseCaps == {Secs(1), Secs(3)}
PauseConfigs ==
    {PauseConfig(m, x, fix, max) :
        m \in Multipliers, x \in ExtraDelays, fix \in BOOLEAN, max \in PauseCaps}
\* subgroups with a dynamic pause and with a fixed pause, one of them negative
PauseSubgroups ==
    {SubGroup(ORIGINAL_PHRASE, FALSE, orig_segment_config.delay_override_sec, <<1>>, <<"Hallo.">>),
     SubGroup(TRANSLATION, FALSE, transl_segment_config.delay_override_sec, <<1>>, <<"Hello.">>),
     SubGroup(TRANSLATION, TRUE, transl_segment_config.delay_override_sec, <<1>>, <<"Hello.">>),
     SubGroup(TRANSLATION, TRUE, 0 - Secs(1), <<1>>, <<"Hello.">>)}

InitPause ==
    /\ Start(<<>>, EmptyMap)
    /\ workers = <<>>
    /\ \E sg \in PauseSubgroups, ms \in ContentMs, t \in SegmentTypes,
          config \in PauseConfigs, h \in Headers :
         probe = [pc |-> "subgroup", subgroup |-> sg, subgroup_duration_ms |-> ms,
                  primary_segment_type |-> t, config |-> config, header |-> h,
                  pause_sec |-> 0, pause_bytes |-> 0, pause_ms |-> 0]

\* "Add Pause After SubGroup" of _save_card_audio
PauseAfterSubgroup ==
    /\ probe.pc = "subgroup"
    /\ LET pause_sec == PauseWith(probe.subgroup, probe.subgroup_duration_ms,
                                  probe.primary_segment_type, probe.config)
           out == IF probe.subgroup_duration_ms > 0
                  THEN save_pause_bytes(
                           [stream |-> <<>>, bytes |-> 0, ts |-> 0, captions |-> <<>>,
                            pcache |-> EmptyMap, sg_dur |-> probe.subgroup_duration_ms,
                            fail |-> FALSE, log |-> <<>>],
                           pause_sec, probe.primary_segment_type, probe.header)
                  ELSE [bytes |-> 0, ts |-> 0]
       IN  probe' = [probe EXCEPT !.pc = "pause", !.pause_sec = pause_sec,
                                  !.pause_bytes = out.bytes, !.pause_ms = out.ts]
    /\ UNCHANGED <<tts_disk, workers, NotStore>>

NextPause == PauseAfterSubgroup

SpecPause == InitPause /\ [][NextPause]_vars

-----------------------------------------------------------------------------
(* SSML packing applied to one BatchCloud list of a language: the first    *)
(* part of _populate_cloud_batch_segments, for lists of short and of long  *)
(* texts and both speeds.                                                  *)

MaxParts == 4
PackTexts == {"Hello.", "A text of 2370 characters.", "A text of 4764 characters.",
              "A text of 4790 characters."}
PackSpeeds == {"90%", "100%"}
PackLists == UNION {[1..n -> PackTexts] : n \in 1..MaxParts}

\* the segments of the texts and their BatchCloud variants at a speed
PackSegments(texts) ==
    [i \in 1..Len(texts) |-> NewSegment(Part("", texts[i]), transl_segment_config)]
PackVariants(texts, speed) ==
    [i \in 1..Len(texts) |->
        (GENERATED_CLOUD_BATCH :>
            [NewVariant(GENERATED_CLOUD_BATCH, EN, NoInterval) EXCEPT !.speed_percent = speed])]

InitPack ==
    /\ Start(<<>>, EmptyMap)
    /\ workers = <<>>
    /\ \E texts \in PackLists, speed \in PackSpeeds :
         probe = [pc |-> "segments", segments |-> PackSegments(texts),
                  variants |-> PackVariants(texts, speed), batches |-> <<>>]

\* "Prepare SSML Batch" of _populate_cloud_batch_segments
PrepareSsmlBatch ==
    /\ probe.pc = "segments"
    /\ probe' = [probe EXCEPT !.pc = "packed",
                              !.batches = combined_ssml_batches(
                                              probe.segments, probe.variants,
                                              [i \in 1..Len(probe.segments) |-> i])]
    /\ UNCHANGED <<tts_disk, workers, NotStore>>

NextPack == PrepareSsmlBatch

SpecPack == InitPack /\ [][NextPack]_vars

-----------------------------------------------------------------------------
(* Properties *)

Events(ev) == {i \in 1..Len(log) : log[i].ev = ev}
InstallEvents == Events("install") \cup Events("install_first")

\* C1 (invariant I1): the master header is set by the first artifact of a
\* job and never changes afterwards; every artifact in the artifact table
\* has the master header; an artifact whose header differs is not installed
\* and not emitted, the job fails instead.
C1_MasterHeader ==
    /\ [](\A key \in DOMAIN audio_content_cache :
              audio_content_cache[key].header = master_header)
    /\ [](\A i \in InstallEvents :
              /\ log[i].header = master_header
              /\ (log[i].ev = "install_first") = (i = 1))
    /\ [](\A i \in Events("mismatch") :
              /\ pc = "failed"
              /\ log[i].header # master_header
              /\ \A key \in DOMAIN audio_content_cache :
                     audio_content_cache[key].header # log[i].header)
    /\ [](wav_out.data # <<>> => wav_out.header = master_header)
    /\ [][(run' = run /\ master_header # NoHeader) => master_header' = master_header]_vars

C1_Witness ==
    /\ pc = "done"
    /\ Cardinality(DOMAIN audio_content_cache) >= 3
    /\ master_header = StereoHeader

\* C2 (invariant I3): every write to the raw PCM stream (a slice, a whole
\* artifact or a pause) has a length that is a multiple of
\* channels x bit_depth/8 of the master header, and so has the total.
FrameAligned(data, h) ==
    \A i \in 1..Len(data) : (data[i].hi - data[i].lo) % BytesPerFrame(h) = 0

C2_FrameAlignedWrites ==
    (pc \in {"assemble", "finalize", "subtitles", "cleanup", "done"}) =>
        /\ FrameAligned(stream, master_header)
        /\ FrameAligned(wav_out.data, master_header)
        /\ bytes_written % BytesPerFrame(master_header) = 0

IsSlice(chunk) == chunk.pcm.kind # "silence" /\ chunk.lo > 0
IsWhole(chunk) ==
    /\ chunk.pcm.kind = "tts" /\ chunk.lo = 0
    /\ \E key \in DOMAIN audio_content_cache :
           /\ audio_content_cache[key].pcm = chunk.pcm
           /\ audio_content_cache[key].pcm_len = chunk.hi
IsPause(chunk) == chunk.pcm.kind = "silence"

C2_Witness ==
    /\ pc = "done"
    /\ \E i, j, k \in 1..Len(wav_out.data) :
           IsSlice(wav_out.data[i]) /\ IsWhole(wav_out.data[j]) /\ IsPause(wav_out.data[k])

\* C3: the captions form a monotone chain start_1 <= end_1 <= start_2 <= ...
\* after any sequence of cards, repeats and subgroups, and so do the
\* timestamps written to the SRT file, whatever the scale factor.
MonotoneChain(starts, ends) ==
    \A i \in 1..Len(starts) :
        /\ starts[i] <= ends[i]
        /\ i < Len(starts) => ends[i] <= starts[i + 1]

CaptionChain(caps) ==
    MonotoneChain([i \in 1..Len(caps) |-> caps[i].start_ts_ms],
                  [i \in 1..Len(caps) |-> caps[i].end_ts_ms])

TimestampMs(t) == ((((t[1] * 60) + t[2]) * 60 + t[3]) * 1000) + t[4]

\* final durations that make the scale factor differ from 1 by more than 1%
ScaleProbes(planned_ms) ==
    {planned_ms - (planned_ms \div 16), planned_ms - (planned_ms \div 64),
     planned_ms + (planned_ms \div 64), planned_ms + (planned_ms \div 16)}

C3_CaptionChain ==
    /\ CaptionChain(captions)
    /\ MonotoneChain([i \in 1..Len(srt_out) |-> TimestampMs(srt_out[i][2])],
                     [i \in 1..Len(srt_out) |-> TimestampMs(srt_out[i][3])])
    /\ pc = "subtitles" =>
           \A final_ms \in ScaleProbes(current_ts_ms) :
               CaptionChain(ScaledCaptions(captions, final_ms, current_ts_ms))

C3_Witness ==
    /\ pc = "done"
    /\ Len(srt_out) >= 4
    /\ \E i \in 1..Len(captions) : captions[i].start_ts_ms < captions[i].end_ts_ms

\* C4: the same job run twice over a populated cache, every synthesized
\* artifact and silence map a hit in both runs, gives the same WAV bytes
\* and the same SRT text.
WarmRun ==
    /\ DOMAIN tts_disk = prev.start_keys
    /\ DOMAIN silence_disk = prev.start_maps
    /\ prev.start_keys # {}

C4_RepeatableOutput ==
    (pc = "done" /\ run >= 2 /\ prev.warm /\ WarmRun) =>
        (wav_out = prev.wav /\ srt_out = prev.srt)

C4_Witness ==
    /\ pc = "done" /\ run >= 2 /\ prev.warm /\ WarmRun
    /\ Len(wav_out.data) >= 4
    /\ Len(srt_out) >= 2

\* C5: the planned total (the cursor) differs from the duration of the bytes
\* written by less than one millisecond for every write that was made.
C5_PlannedTotalDrift ==
    (pc \in {"subtitles", "cleanup", "done"}) =>
        Abs(final_duration_ms - current_ts_ms) <= Len(wav_out.data)

C5_Witness ==
    /\ pc = "done"
    /\ final_duration_ms > current_ts_ms + 2

\* C5 as stated: the planned total equals the duration of the bytes written
\* to within the duration of one frame (1000 / sample_rate ms).
C5_Original ==
    (pc \in {"subtitles", "cleanup", "done"}) =>
        Abs(final_duration_ms - current_ts_ms) * master_header.sample_rate <= 1000

\* the window of segment i when no fallback applies
ClosedWindow(i, pauses) ==
    Window(IF i = 1 THEN 0 ELSE get_middle(pauses[i - 1]) + STEP_FROM_SILENCE_MIDDLE_SEC,
           get_middle(pauses[i]) - STEP_FROM_SILENCE_MIDDLE_SEC)

NoFallback(k, pauses) ==
    \A i \in 1..k : ClosedWindow(i, pauses).start_time_sec < ClosedWindow(i, pauses).end_time_sec

BatchWindow(seg) ==
    Window(variants[seg][GENERATED_CLOUD_BATCH].start_time_sec,
           variants[seg][GENERATED_CLOUD_BATCH].end_time_sec)

FullBatch(e) == Len(e.pauses) = Len(e.segs) /\ NoFallback(Len(e.segs), e.pauses)

\* C6: a batch of n segments with exactly n pauses whose midpoints are far
\* enough apart that no fallback triggers gives segment 1 the window
\* [0, m_1 - step] and segment i the window [m_(i-1) + step, m_i - step]
\* inside the batch artifact.
C6_BatchBoundaryRecovery ==
    \A e \in Events("batch") :
        FullBatch(log[e]) =>
            \A i \in 1..Len(log[e].segs) :
                /\ BatchWindow(log[e].segs[i]) = ClosedWindow(i, log[e].pauses)
                /\ variants[log[e].segs[i]][GENERATED_CLOUD_BATCH].audio_file_key = log[e].key

C6_Witness ==
    \E e \in Events("batch") : Len(log[e].segs) >= 3 /\ FullBatch(log[e])

ShortBatch(e) == Len(e.pauses) < Len(e.segs)

\* a full pause list whose first pauses are the pauses found
FullList(e) ==
    e.pauses \o SubSeq(BreakPauses([i \in 1..Len(e.segs) |-> segments[e.segs[i]].text], 0),
                       Len(e.pauses) + 1, Len(e.segs))

\* C7: a batch of n segments with only k < n pauses gives the first k
\* segments the windows they get from the first k pauses of a full list,
\* gives the others start = end = -1 with the key of the batch artifact,
\* and the job does not fail over it.
C7_PauseMismatchFallback ==
    \A e \in Events("batch") :
        ShortBatch(log[e]) =>
            /\ \A i \in 1..Len(log[e].pauses) :
                   /\ BatchWindow(log[e].segs[i]) =
                          AssignTimepoints(Len(log[e].segs), FullList(log[e]))[i]
                   /\ BatchWindow(log[e].segs[i]).start_time_sec >= 0
                   /\ BatchWindow(log[e].segs[i]).end_time_sec
                          > BatchWindow(log[e].segs[i]).start_time_sec
            /\ \A i \in (Len(log[e].pauses) + 1)..Len(log[e].segs) :
                   BatchWindow(log[e].segs[i]) = Window(NO_TIME, NO_TIME)
            /\ \A i \in 1..Len(log[e].segs) :
                   variants[log[e].segs[i]][GENERATED_CLOUD_BATCH].audio_file_key = log[e].key
            /\ Events("stream_writing_failed") = {}
            /\ pc = "failed" => log[Len(log)].ev \in {"mismatch", "missing", "detect_failed",
                                                      "unreadable_silence_map"}

C7_Witness ==
    /\ pc = "done"
    /\ \E e \in Events("batch") :
           Len(log[e].pauses) >= 1 /\ Len(log[e].segs) >= Len(log[e].pauses) + 2

FrameFloor(n, h) == (n \div BytesPerFrame(h)) * BytesPerFrame(h)

\* the byte window the slice rule gives a variant of an artifact
ExpectedWindow(variant, content, h) ==
    IF variant.start_time_sec >= 0 /\ variant.end_time_sec >= variant.start_time_sec
    THEN [lo |-> FrameFloor(bytes_for_duration(variant.start_time_sec, h), h),
          hi |-> FrameFloor(Min(content.pcm_len,
                                bytes_for_duration(variant.end_time_sec, h)), h)]
    ELSE [lo |-> 0, hi |-> content.pcm_len]

WindowChunks(pcm, w) == IF w.lo < w.hi THEN <<Chunk(pcm, w.lo, w.hi)>> ELSE <<>>

ExpectedOfVariant(variant) ==
    IF variant.audio_file_key \notin DOMAIN audio_content_cache THEN <<>>
    ELSE WindowChunks(audio_content_cache[variant.audio_file_key].pcm,
                      ExpectedWindow(variant, audio_content_cache[variant.audio_file_key],
                                     master_header))

ExpectedOfSegment(seg) ==
    IF segments[seg].is_silent \/ select_type(variants[seg]) = None THEN <<>>
    ELSE ExpectedOfVariant(variants[seg][select_type(variants[seg])])

RECURSIVE ExpectedOfSegments(_)
ExpectedOfSegments(rest) ==
    IF rest = <<>> THEN <<>>
    ELSE ExpectedOfSegment(Head(rest)) \o ExpectedOfSegments(Tail(rest))

RECURSIVE ExpectedOfSubgroups(_)
ExpectedOfSubgroups(sgs) ==
    IF sgs = <<>> THEN <<>>
    ELSE ExpectedOfSegments(Head(sgs).segments) \o ExpectedOfSubgroups(Tail(sgs))

RECURSIVE Repeated(_, _)
Repeated(chunks, i) == IF i = 0 THEN <<>> ELSE chunks \o Repeated(chunks, i - 1)

RECURSIVE ExpectedOfCards(_)
ExpectedOfCards(k) ==
    IF k = 0 THEN <<>>
    ELSE ExpectedOfCards(k - 1)
         \o Repeated(ExpectedOfSubgroups(get_subgroup_list(cards[k])),
                     IF is_description(cards[k]) THEN 1 ELSE repeat_number)

SoundWritten == SelectSeq(stream, LAMBDA chunk : chunk.pcm.kind # "silence")

ClippedSlice(chunk) ==
    /\ chunk.lo > 0
    /\ \E key \in DOMAIN audio_content_cache :
           /\ audio_content_cache[key].pcm = chunk.pcm
           /\ audio_content_cache[key].pcm_len = chunk.hi

WholeOfUntimed(chunk) ==
    /\ chunk.lo = 0
    /\ \E seg \in 1..Len(variants) :
           /\ GENERATED_CLOUD_BATCH \in DOMAIN variants[seg]
           /\ BatchWindow(seg) = Window(NO_TIME, NO_TIME)
           /\ variants[seg][GENERATED_CLOUD_BATCH].audio_file_key \in DOMAIN audio_content_cache
           /\ audio_content_cache[variants[seg][GENERATED_CLOUD_BATCH].audio_file_key]
                  = AudioContent(master_header, chunk.hi, chunk.pcm)

TypeRank(seg_type) ==
    CASE seg_type = FILE_SEGMENT -> 1
      [] seg_type = GENERATED_CLOUD -> 2
      [] seg_type = GENERATED_CLOUD_BATCH -> 3

\* the recordings the FileCut segments of a language need
FileKeys(lang) ==
    {variants[plan.lists[lang][FILE_SEGMENT][i]][FILE_SEGMENT].audio_file_key :
        i \in {j \in 1..Len(plan.lists[lang][FILE_SEGMENT]) :
                 is_valid(variants[plan.lists[lang][FILE_SEGMENT][j]][FILE_SEGMENT].subtitle_interval)}}
    \ {NoKey}

\* C9: within one language the plan is realized in the order FileCut,
\* SingleCloud, BatchCloud: no synthesized artifact of a language enters
\* the artifact table before every FileCut artifact of that language.
C9_RealizationOrder ==
    /\ \A i, j \in InstallEvents :
           (i < j /\ log[i].lang = log[j].lang) =>
               TypeRank(log[i].seg_type) <= TypeRank(log[j].seg_type)
    /\ (pc = "populate" /\ phase \in {"cloud_check", "cloud_gen", "batch"}) =>
           FileKeys(CurrentLang) \subseteq DOMAIN audio_content_cache

C9_Witness ==
    \E i, j \in InstallEvents :
        /\ i < j /\ log[i].lang = log[j].lang
        /\ log[i].seg_type = FILE_SEGMENT /\ log[j].seg_type # FILE_SEGMENT

PlanHasFileCut ==
    \E lang \in {DE, EN, RU} : plan.lists[lang][FILE_SEGMENT] # <<>>

\* C10: in a job whose plan contains a FileCut segment the master header is
\* the header of a source recording: no synthesized artifact sets the master
\* header before the first FileCut artifact is installed, and it is the
\* synthesized artifact with a differing header that makes the job fail.
C10_FilePriority ==
    PlanHasFileCut =>
        /\ \A i \in Events("install_first") : log[i].seg_type = FILE_SEGMENT
        /\ \A i \in Events("mismatch") : log[i].seg_type # FILE_SEGMENT

Hit(w) == workers[w].op = "lookup" /\ workers[w].pc = "done" /\ workers[w].path # NoKey
StoreUnderWay == \E w \in DOMAIN workers : workers[w].pc = "copy"

\* C11: writes to one cache key are atomic: no lookup returns a file that is
\* partially written, and once no store is under way the file of the key holds
\* one of the stored inputs in full.
C11_AtomicStore ==
    /\ \A w \in DOMAIN workers : Hit(w) => workers[w].got \in SourceFiles
    /\ \A path \in DOMAIN tts_disk :
         (workers # <<>> /\ ~StoreUnderWay) => tts_disk[path] \in SourceFiles

Stored(w) == workers[w].op = "store" /\ workers[w].pc = "done"

\* C12: store and lookup agree on the path of a key: a lookup of a key after
\* a successful store of that key is a hit.
C12_StoreThenHit ==
    \A w \in DOMAIN workers :
        Stored(w) => get_cached_file_path(tts_disk, workers[w].key) # NoKey

\* C13: a failure of silence detection on a batch is recoverable: the batch
\* goes on with an empty pause list, each of its segments keeps the key of
\* the batch artifact with start = end = -1, and the job does not fail.
C13_DetectionFailureRecoverable ==
    \A e \in Events("detect_failed") :
        /\ pc # "failed"
        /\ \A i \in 1..Len(log[e].segs) :
               /\ BatchWindow(log[e].segs[i]) = Window(NO_TIME, NO_TIME)
               /\ variants[log[e].segs[i]][GENERATED_CLOUD_BATCH].audio_file_key = log[e].key

\* C14: a silence cache file that cannot be loaded is treated as a miss and
\* deleted: the file is gone afterwards, detection is run again for the
\* batch and the job does not fail because of it.
C14_CorruptSilenceMapIsMiss ==
    \A e \in Events("unreadable_silence_map") :
        /\ pc # "failed"
        /\ \A hh \in DOMAIN silence_disk : Parses(silence_disk[hh])

\* the FileCut segments of the plan
PlannedFileCuts ==
    UNION {{plan.lists[lang][FILE_SEGMENT][i] : i \in 1..Len(plan.lists[lang][FILE_SEGMENT])} :
           lang \in {DE, EN, RU}}

\* the output holds a non-empty cut of the artifact under the key
CutWritten(key) ==
    \E i \in 1..Len(wav_out.data) :
        /\ wav_out.data[i].pcm = audio_content_cache[key].pcm
        /\ wav_out.data[i].hi > wav_out.data[i].lo

\* C15: a job is never completed with a planned FileCut segment whose
\* recording is not in the artifact table, and no FileCut segment is
\* skipped or written as zero bytes.
C15_FileCutSourceFatal ==
    pc = "done" =>
        \A seg \in PlannedFileCuts :
            /\ variants[seg][FILE_SEGMENT].audio_file_key \in DOMAIN audio_content_cache
            /\ CutWritten(variants[seg][FILE_SEGMENT].audio_file_key)

\* C16: when a job has failed, in whatever phase, no partial output is left:
\* the phase 1 file and the finalized WAV are gone and the temporary
\* directory is removed; the cache directories keep their entries.
C16_NoPartialOutput ==
    pc = "failed" =>
        /\ Phase1Path \notin temp_dir.files
        /\ wav_out = NoWav
        /\ ~temp_dir.exists
        /\ prev.start_keys \subseteq DOMAIN tts_disk
        /\ prev.start_maps \subseteq DOMAIN silence_disk

Applied(final_ms, planned_ms) ==
    planned_ms > 0 /\ final_ms > 0 /\ 100 * Abs(final_ms - planned_ms) >= planned_ms

\* C17: with scale = final / planned, if |scale - 1| < 0.01 no scaling is
\* applied and every SRT timestamp is the planned caption time; otherwise
\* every SRT timestamp is the planned time multiplied by the scale.
C17_ScaleFactor ==
    pc \in {"cleanup", "done"} =>
        \A i \in 1..Len(srt_out) :
            IF Applied(final_duration_ms, current_ts_ms)
            THEN /\ TimestampMs(srt_out[i][2]) =
                        (captions[i].start_ts_ms * final_duration_ms) \div current_ts_ms
                 /\ TimestampMs(srt_out[i][3]) =
                        (captions[i].end_ts_ms * final_duration_ms) \div current_ts_ms
            ELSE /\ TimestampMs(srt_out[i][2]) = captions[i].start_ts_ms
                 /\ TimestampMs(srt_out[i][3]) = captions[i].end_ts_ms

\* planned 10,000 ms and actual 10,050 ms: written unscaled
C17_Witness ==
    /\ pc = "cleanup"
    /\ current_ts_ms = 10000 /\ final_duration_ms = 10050
    /\ Len(srt_out) = 2 /\ TimestampMs(srt_out[2][3]) = 10000

\* the pieces of a caption text, each with '<' and '>' escaped
Escaped(text) == [k \in 1..Len(text) |-> fix_text_for_srt(text[k])]

\* C18: every caption text is written to the SRT file with each '<'
\* replaced by '&lt;' and each '>' by '&gt;'.
C18_SrtTextEscaped ==
    pc \in {"cleanup", "done"} =>
        \A i \in 1..Len(srt_out) : srt_out[i][4] = Escaped(captions[i].text)

TicksPerMs == TPS \div 1000
\* the distance, in ticks, of the duration found from the duration given
RoundTripError == Abs((probe.ms * TicksPerMs) - probe.ticks)

\* C19: for every header and every duration s >= 0 the duration of
\* bytes_for_duration(s, h) differs from s x 1000 by less than 1 ms plus the
\* duration of one frame.
C19_RoundTrip ==
    probe.pc = "ms" =>
        RoundTripError * probe.header.sample_rate
            < (TicksPerMs * probe.header.sample_rate) + TPS

\* C19 as stated: the round trip is within 1 ms.
C19_Original == probe.pc = "ms" => RoundTripError <= TicksPerMs

C19_Witness ==
    /\ probe.pc = "ms" /\ probe.ticks > Secs(1)
    /\ probe.header = DefaultHeader
    /\ RoundTripError > 0

\* the segments of a batch that are matched with a pause
Matched(e) == 1..Min(Len(e.segs), Len(e.pauses))
Inverted(i, pauses) ==
    ClosedWindow(i, pauses).start_time_sec >= ClosedWindow(i, pauses).end_time_sec

\* C20: a batch segment whose window has start >= end after the edge inset
\* takes the pause interval [pause.start, pause.end], or the 10 ms window
\* [pause.start, pause.start + 0.01] if that is inverted too; every segment
\* matched with a pause has 0 <= start < end.
C20_EdgeInsetFallback ==
    \A e \in Events("batch") :
        \A i \in Matched(log[e]) :
            /\ 0 <= BatchWindow(log[e].segs[i]).start_time_sec
            /\ BatchWindow(log[e].segs[i]).start_time_sec
                   < BatchWindow(log[e].segs[i]).end_time_sec
            /\ Inverted(i, log[e].pauses) =>
                   BatchWindow(log[e].segs[i]) =
                       IF log[e].pauses[i].start_sec < log[e].pauses[i].end_sec
                       THEN Window(log[e].pauses[i].start_sec, log[e].pauses[i].end_sec)
                       ELSE Window(log[e].pauses[i].start_sec,
                                   log[e].pauses[i].start_sec + (TPS \div 100))

\* a batch whose first segment got the 10 ms window and a later one a window
\* of the edge inset
C20_Witness ==
    \E e \in Events("batch") :
        /\ \E i \in Matched(log[e]) :
               /\ Inverted(i, log[e].pauses)
               /\ log[e].pauses[i].start_sec = log[e].pauses[i].end_sec
        /\ \E i \in Matched(log[e]) : ~Inverted(i, log[e].pauses)

\* pauses in the order of their start that do not overlap
Disjoint(pauses) ==
    \A i \in 1..(Len(pauses) - 1) : pauses[i].end_sec <= pauses[i + 1].start_sec

\* C21: for every batch and every ordered list of disjoint pauses, the
\* windows of consecutive segments matched with a pause are ordered and do
\* not overlap (end_i <= start_(i+1)), the fallback windows included.
C21_WindowsOrdered ==
    \A e \in Events("batch") :
        Disjoint(log[e].pauses) =>
            \A i \in Matched(log[e]) :
                (i + 1) \in Matched(log[e]) =>
                    BatchWindow(log[e].segs[i]).end_time_sec
                        <= BatchWindow(log[e].segs[i + 1]).start_time_sec

\* the passes over subgroups made so far, in the order they were made
Passes == SelectSeq(log, LAMBDA e : e.ev = "pass")

\* the card a pass belongs to: the card that holds its subgroup
CardOfPass(p) == CHOOSE k \in 1..Len(cards) : \E j \in 1..Len(cards[k]) : cards[k][j] = p.subgroup

\* the roles of the passes made over card k, in order
RolesOfCard(k) ==
    LET ofk == SelectSeq(Passes, LAMBDA p : CardOfPass(p) = k)
    IN  [m \in 1..Len(ofk) |-> ofk[m].subgroup.subgroup_type]

\* n times a list of roles
RECURSIVE Times(_, _)
Times(n, roles) == IF n = 0 THEN <<>> ELSE roles \o Times(n - 1, roles)

\* the roles of one repeat of a phrase: the lines that have parts
RolesOfPhrase(phrase) ==
    IF phrase.is_description THEN <<DESCRIPTION>>
    ELSE <<ORIGINAL_PHRASE>> \o (IF phrase.translation = <<>> THEN <<>> ELSE <<TRANSLATION>>)

\* C22: cards are emitted in input order; the subgroup of a Description
\* card is emitted once, every other card R = repeat_number times, each
\* repeat as Original then Translation before the next repeat starts.
C22_CardOrderAndRepeats ==
    /\ \A i, j \in 1..Len(Passes) : i < j => CardOfPass(Passes[i]) <= CardOfPass(Passes[j])
    /\ \A k \in 1..(ci - 1) :
           RolesOfCard(k) = Times(IF phrases[k].is_description THEN 1 ELSE repeat_number,
                                  RolesOfPhrase(phrases[k]))

\* a finished job of a Description card followed by a pair with a translation
C22_Witness ==
    /\ pc = "done"
    /\ Len(phrases) = 2
    /\ phrases[1].is_description
    /\ ~phrases[2].is_description /\ phrases[2].translation # <<>>
    /\ Len(Passes) = 1 + (2 * repeat_number)

\* passes over a subgroup with a fixed pause policy that wrote content
FixedPasses == {i \in 1..Len(Passes) : Passes[i].subgroup.delay_override /\ Passes[i].content_ms > 0}

\* the silence of a duration in ticks: whole frames of the master header
SilenceBytes(ticks) ==
    IF ticks \div (TPS \div 1000) <= 0 THEN 0 ELSE bytes_for_duration(ticks, master_header)

CappedOriginal ==
    /\ probe.subgroup.subgroup_type = ORIGINAL_PHRASE
    /\ ~probe.subgroup.delay_override
    /\ probe.config.delay_after_orig_phrase_fix

\* C24: with the cap flag set the pause written after an Original subgroup
\* with a dynamic pause policy is never longer than max_original_pause_sec,
\* and the pause written after any subgroup is never negative, whatever the
\* content duration, multiplier, extra delay and BatchCloud adjustment are.
C24_PauseCappedNotNegative ==
    probe.pc = "pause" =>
        /\ probe.pause_bytes >= 0 /\ probe.pause_ms >= 0
        /\ CappedOriginal =>
               /\ probe.pause_ms * (TPS \div 1000)
                      <= probe.config.delay_after_orig_phrase_override_max
               /\ probe.pause_bytes
                      <= bytes_for_duration(probe.config.delay_after_orig_phrase_override_max,
                                            probe.header)

\* a pause that was clipped to the cap
C24_Witness ==
    /\ probe.pc = "pause"
    /\ CappedOriginal
    /\ probe.subgroup_duration_ms * (TPS \div 1000)
           > probe.config.delay_after_orig_phrase_override_max
    /\ probe.config.extra_delay_sec >= 0
    /\ probe.pause_ms * (TPS \div 1000) = probe.config.delay_after_orig_phrase_override_max

\* the writes of the job: the phase 1 stream, then the data of the WAV file
Written == IF pc \in {"assemble", "finalize", "failed"} THEN stream ELSE wav_out.data

\* the card loop of the job has ended without a failure
Assembled == pc \in {"finalize", "subtitles", "cleanup", "done"}

\* C25: in every completed job the trailing silence of end_silence_sec is
\* written to the output stream exactly once, after all content and pauses
\* of the last card, and nothing is written to the stream after it.
C25_TrailingSilence ==
    /\ Cardinality(Events("end_silence")) <= 1
    /\ Assembled =>
           /\ Cardinality(Events("end_silence")) = 1
           /\ \A e \in Events("end_silence") :
                  /\ log[e].first = Len(Written) /\ log[e].last = Len(Written)
                  /\ Written[Len(Written)] =
                         Chunk(Silence, 0,
                               bytes_for_duration(Secs(SILENCE_AT_THE_END_SEC), master_header))
                  /\ \A i \in Events("pass") : i < e /\ log[i].last < log[e].first

\* a completed job of two cards
C25_Witness ==
    /\ pc = "done"
    /\ Len(cards) = 2
    /\ Events("pass") # {}
    /\ Events("end_silence") # {}

\* C26: a caption is emitted for one pass over a subgroup exactly when that
\* pass wrote a non-zero number of content bytes: a pass that wrote none
\* adds no caption, and a pass that wrote any adds one caption spanning
\* [subgroup_start_ms, cursor_ms) with the subgroup's joined text.
C26_CaptionIffContent ==
    \A i \in 1..Len(Passes) :
        IF Passes[i].content_bytes = 0
        THEN Passes[i].captions = <<>>
        ELSE /\ Len(Passes[i].captions) = 1
             /\ Passes[i].captions[1].start_ts_ms = Passes[i].start_ts_ms
             /\ Passes[i].captions[1].end_ts_ms = Passes[i].end_ts_ms
             /\ Passes[i].captions[1].text = Passes[i].subgroup.subtitle_track_caption_text

\* the segment lists of the documents, one after the other
RECURSIVE Concatenated(_)
Concatenated(batches) ==
    IF batches = <<>> THEN <<>>
    ELSE Head(batches).batch_segments \o Concatenated(Tail(batches))

\* the length of the document of these segments at the speed of the list
DocLen(batch_segments) ==
    SsmlLen(FullSsml(probe.variants[1][GENERATED_CLOUD_BATCH].speed_percent,
                     [i \in 1..Len(batch_segments) |-> probe.segments[batch_segments[i]].text]))

\* C27: SSML packing is an order-preserving partition: every segment of the
\* list lands in exactly one document and the documents' segment lists,
\* concatenated in document order, are the input list; a new document is
\* opened exactly when adding the next segment would push the current one
\* past the maximum SSML length.
C27_PackingPartition ==
    probe.pc = "packed" =>
        /\ Concatenated(probe.batches) = [i \in 1..Len(probe.segments) |-> i]
        /\ \A b \in 1..Len(probe.batches) :
               /\ probe.batches[b].batch_segments # <<>>
               /\ \A j \in 2..Len(probe.batches[b].batch_segments) :
                      DocLen(SubSeq(probe.batches[b].batch_segments, 1, j)) <= MAX_TTS_TEXT_LENGTH
               /\ b > 1 =>
                      DocLen(Append(probe.batches[b - 1].batch_segments,
                                    probe.batches[b].batch_segments[1])) > MAX_TTS_TEXT_LENGTH

\* a list packed into a document of two segments followed by another one
C27_Witness ==
    /\ probe.pc = "packed"
    /\ Len(probe.batches) >= 2
    /\ Len(probe.batches[1].batch_segments) >= 2

\* C30: every SSML document made for a batch has a length of at most the
\* maximum SSML length, for every list of segments, a segment whose own
\* escaped text and break tag do not fit an empty document included.
C30_DocumentLength ==
    probe.pc = "packed" =>
        \A b \in 1..Len(probe.batches) :
            SsmlLen(probe.batches[b].full_ssml) <= MAX_TTS_TEXT_LENGTH

\* C28: distinct batch documents realized in one job (differing in language,
\* voice or rate) are stored under distinct artifact-table keys, on a cache
\* miss as on a cache hit: no variant points at the audio of another batch,
\* and a run over the empty cache writes the same audio as the run over the
\* cache it leaves.
C28_DistinctBatchKeys ==
    /\ \A d, e \in Events("batch") :
           log[d].lang # log[e].lang => log[d].key # log[e].key
    /\ pc \in {"assemble", "finalize", "subtitles", "cleanup", "done"} =>
           \A e \in Events("batch") :
               audio_content_cache[log[e].key].pcm.request.language_code = log[e].lang
    /\ (pc = "done" /\ run = 2) => wav_out = prev.wav

\* the calls the loop of single requests made, and the cache key of a call
SingleCalls == {i \in 1..Len(tts_calls) : tts_calls[i].seg_type = GENERATED_CLOUD}
KeyOfCall(call) ==
    LET hash == call.key[Len(call.key)]
    IN  TTSCacheKey(hash[2], hash[3], hash[4], hash[5])

\* C29: within one job the synthesizer is called at most once for each
\* SingleCloud cache key, also when several planned segments share text,
\* language, voice and rate and the key is not in the disk cache; and it is
\* never called for a key whose file was in the disk cache when the job began.
C29_OneCallPerKey ==
    /\ \A i, j \in SingleCalls : tts_calls[i].key = tts_calls[j].key => i = j
    /\ \A i \in SingleCalls :
           get_full_cache_path(KeyOfCall(tts_calls[i])) \notin prev.start_keys

====
